---- MODULE Spec2Model ----
(***************************************************************************)
(* The Session Process Supervisor of maestro: the Status Server            *)
(* (core/status_server.rs), the terminal commands (commands/terminal.rs)   *)
(* and the Process Manager / process-tree layer they call.                 *)
(***************************************************************************)
EXTENDS Integers, Sequences, FiniteSets, Bags, TLC

VARIABLES
    instance_id,        \* StatusServer.instance_id / ServerState.instance_id
    session_projects,   \* the HashMap<u32, String> behind the RwLock
    handler,            \* the handle_status invocation in flight
    listeners,          \* OS: the holder of each loopback port of the range
    servers,            \* each application instance's StatusServer::start
    sessions,           \* Process Manager: session id -> root pid
    nprocs,             \* OS: the number of processes started so far (pids 1..nprocs)
    alive,              \* OS: the pids of the live processes
    parent,             \* OS: the parent pid of every process (0: not in the table)
    calls,              \* the bag of the asynchronous commands in flight
    effect,             \* what the latest step did: a signal sent, the
                        \* answer of a command
    worktrees,          \* git: the worktrees of the repository (worktree_list)
    dirs,               \* file system: the directories under the worktree base
    opencode_json,      \* file system: opencode.json of the working directory
    other_json,         \* file system: opencode.json of another directory
    mcp_server          \* the helper (maestro-mcp-server) of a session: its
                        \* reporter, the lines of its stdin and stdout, its POSTs

net_vars == <<listeners, servers>>
disk_vars == <<worktrees, dirs, opencode_json, other_json>>
status_vars == <<instance_id, session_projects, handler, net_vars, disk_vars,
                 mcp_server>>
pm_vars == <<sessions, nprocs, alive, parent, calls>>
vars == <<instance_id, session_projects, handler, listeners, servers, sessions, nprocs, alive, parent, calls, effect, worktrees, dirs,
          opencode_json, other_json, mcp_server>>

\* ------------------------------------------------------------------ bounds

\* session ids range over 1..MaxSessionId
MaxSessionId == 2
\* the number of asynchronous commands that may be in flight together
MaxCalls == 1
\* the number of ports of the range that are not held by other processes
\* for the whole run
MaxContended == 3

SessionIds == 1..MaxSessionId
InstanceIds == {"inst-A", "inst-B"}
Paths == {"/tmp/proj", "/tmp/other"}
\* state strings a reporter may send: the five of the wire vocabulary and
\* strings outside it (other capitalisation, the empty string, a synonym)
WireStates == {"idle", "working", "needs_input", "finished", "error"}
OtherStates == {"Working", "", "done"}
Messages == {"compiling", ""}
\* Option<String>: <<>> is None, <<s>> is Some(s)
Prompts == {<<>>, <<"continue?">>}

StatusRequest ==
    [session_id : SessionIds, instance_id : InstanceIds,
     state : WireStates \cup OtherStates, message : Messages,
     needs_input_prompt : Prompts]

NoRequest ==
    [session_id |-> 0, instance_id |-> "", state |-> "", message |-> "",
     needs_input_prompt |-> <<>>]

\* StatusCode::OK, and the answer of the Json extractor to a body it rejects
OK == "200 OK"
REJECTED == "4xx"

\* what a step did, by is the command. A signal sent: sig ("TERM", "KILL")
\* went to pid; to_root says that pid was then the root of a registered
\* session. A command that returned: status ("ok", "err") is its answer, id
\* the session id it was called with or answers, pid the root process it was
\* about, count the number it answers, ids the sessions it took out of the
\* Process Manager; unregistered says that the step took an entry out of the
\* Status Server's map; trees are the process trees it answers; cwd, rows
\* and cols are the arguments it was called with. A command that refused
\* its arguments before calling the Process Manager answers "rejected";
\* forwarded is the write or resize the Process Manager was called with.
\* A function that was called: input is its argument, values are the
\* values it returned, one per call.
NoEffect ==
    [by |-> "", sig |-> "", pid |-> 0, to_root |-> FALSE,
     status |-> "", id |-> 0, count |-> 0, ids |-> {}, unregistered |-> FALSE,
     trees |-> {}, cwd |-> "", rows |-> 0, cols |-> 0, forwarded |-> <<>>,
     input |-> <<>>, values |-> <<>>]

\* ----------------------------------------------------------- Status Server

\* HashMap::get(..).cloned()
MapGet(m, k) == IF k \in DOMAIN m THEN <<m[k]>> ELSE <<>>

\* HashMap::insert
MapInsert(m, k, v) == [x \in (DOMAIN m) \cup {k} |-> IF x = k THEN v ELSE m[x]]

\* a removal that empties the map
MapClear(m, k) == [x \in {} |-> m[x]]

\* HashMap::remove
MapRemove(m, k) == [x \in (DOMAIN m) \ {k} |-> m[x]]

EmptyMap == [x \in {} |-> ""]

Min(S) == CHOOSE x \in S : \A y \in S : x <= y

\* a match on payload.state that ignores the capital of "Working"
MapStateAnyCase(state) ==
    CASE state = "idle" -> "Idle"
      [] state \in {"working", "Working"} -> "Working"
      [] state = "needs_input" -> "NeedsInput"
      [] state = "finished" -> "Done"
      [] state = "error" -> "Error"
      [] OTHER -> "Unknown"

\* the match on payload.state
MapState(state) ==
    CASE state = "idle" -> "Idle"
      [] state = "working" -> "Working"
      [] state = "needs_input" -> "NeedsInput"
      [] state = "finished" -> "Done"
      [] state = "error" -> "Error"
      [] OTHER -> "Unknown"

\* a handler without the instance check
NoInstanceCheck(payload, own) == FALSE

\* the instance check of handle_status
WrongInstance(payload, own) == payload.instance_id # own

\* a lookup that falls back to the empty path (unwrap_or_default)
LookupProjectOrDefault(projects, payload) ==
    IF payload.session_id \in DOMAIN projects
    THEN <<projects[payload.session_id]>>
    ELSE <<"">>

\* the lookup of handle_status under the read lock
LookupProject(projects, payload) == MapGet(projects, payload.session_id)

\* an event that drops the prompt of the report
SessionStatusPayloadNoPrompt(payload, project_path) ==
    [session_id |-> payload.session_id,
     project_path |-> project_path,
     status |-> MapState(payload.state),
     message |-> payload.message,
     needs_input_prompt |-> <<>>]

\* the event built by handle_status
SessionStatusPayload(payload, project_path) ==
    [session_id |-> payload.session_id,
     project_path |-> project_path,
     status |-> MapState(payload.state),
     message |-> payload.message,
     needs_input_prompt |-> payload.needs_input_prompt]

IdleHandler ==
    [pc |-> "idle", req |-> NoRequest, project_path |-> <<>>,
     emitted |-> <<>>, emit_ok |-> TRUE, code |-> ""]

\* a handler that goes on to emit for a session without an entry
HandleLookupAnySession(payload, own, projects) ==
    IF WrongInstance(payload, own)
    THEN [pc |-> "done", req |-> payload, project_path |-> <<>>,
          emitted |-> <<>>, emit_ok |-> TRUE, code |-> OK]
    ELSE [pc |-> "emit", req |-> payload,
          project_path |-> IF payload.session_id \in DOMAIN projects
                           THEN <<projects[payload.session_id]>>
                           ELSE <<"">>,
          emitted |-> <<>>, emit_ok |-> TRUE, code |-> ""]

\* what handle_status does up to the end of the read-locked block: the
\* instance check and the lookup. A handler that returns early is done.
HandleLookup(payload, own, projects) ==
    IF WrongInstance(payload, own)
    THEN [pc |-> "done", req |-> payload, project_path |-> <<>>,
          emitted |-> <<>>, emit_ok |-> TRUE, code |-> OK]
    ELSE IF LookupProject(projects, payload) = <<>>
    THEN [pc |-> "done", req |-> payload, project_path |-> <<>>,
          emitted |-> <<>>, emit_ok |-> TRUE, code |-> OK]
    ELSE [pc |-> "emit", req |-> payload,
          project_path |-> LookupProject(projects, payload),
          emitted |-> <<>>, emit_ok |-> TRUE, code |-> ""]

\* a handler that answers 500 when emit fails
HandleEmitOrFail(h, ok) ==
    [h EXCEPT !.pc = "done",
              !.emitted = Append(h.emitted,
                                 SessionStatusPayload(h.req, h.project_path[1])),
              !.emit_ok = ok,
              !.code = IF ok THEN OK ELSE "500"]

\* the rest of handle_status: build the event, emit it, answer. emitted is
\* the list of emit calls of this invocation; ok is what emit returned.
HandleEmit(h, ok) ==
    [h EXCEPT !.pc = "done",
              !.emitted = Append(h.emitted,
                                 SessionStatusPayload(h.req, h.project_path[1])),
              !.emit_ok = ok,
              !.code = OK]

\* find_and_bind_port(9900, 9999)
RANGE_START == 9900
RANGE_END == 9999
PortRange == RANGE_START .. RANGE_END

\* the ports of the range that are free at some time of the run: the lowest
\* ones and the last one. Other processes hold the rest throughout.
ContendedPorts ==
    (RANGE_START .. (RANGE_START + MaxContended - 2)) \cup {RANGE_END}

\* who holds the listening socket on 127.0.0.1:port: an instance of the
\* application, another process ("other") or nobody ("free")
Holder(port) == IF port \in ContendedPorts THEN listeners[port] ELSE "other"

\* a bind that takes a port over from another instance of the application
BindSucceedsUnlessOther(port) == Holder(port) # "other"

\* TcpListener::bind(&addr).await is Ok
BindSucceeds(port) == Holder(port) = "free"

\* a loop that leaves out the port after a failed bind
NextAttemptSkipping(port) ==
    IF \E q \in ContendedPorts : q > port + 1
    THEN Min({q \in ContendedPorts : q > port + 1})
    ELSE RANGE_END + 1

\* for port in range_start..=range_end: the next port of the loop whose
\* bind can succeed; the binds on the ports before it fail
NextAttempt(port) ==
    IF \E q \in ContendedPorts : q > port
    THEN Min({q \in ContendedPorts : q > port})
    ELSE RANGE_END + 1

\* StatusServer::start of one instance: where it is (pc), the port of its
\* next bind, the ports whose bind failed (tried), the port of the
\* StatusServer it returned (0: none) and whether the server task is spawned
IdleServer ==
    [pc |-> "idle", next |-> 0, tried |-> {}, port |-> 0, task |-> FALSE]

\* a start that has returned Some(Self { port, .. })
Serving(port) ==
    [pc |-> "serving", next |-> port, tried |-> RANGE_START .. (port - 1),
     port |-> port, task |-> TRUE]

\* the WorktreeInfo of the main worktree of the repository "/r"; branch is
\* an Option: <<>> for a detached HEAD
MainWorktree(branch) ==
    [path |-> <<"r">>, branch |-> branch, is_main_worktree |-> TRUE]

\* McpServer::new, with what the client will write to the stdin of the
\* helper: the lines still to read, the lines read, the response lines
\* written, the POSTs sent and where run is
NewMcpServer(status_reporter, stdin, pc) ==
    [status_reporter |-> status_reporter, stdin |-> stdin, read |-> <<>>,
     stdout |-> <<>>, posts |-> <<>>, pc |-> pc]

\* a repository with its main worktree on branch "m", no managed worktree,
\* no opencode.json and no helper
DiskInit ==
    /\ worktrees = {MainWorktree(<<(<<"m">>)>>)}
    /\ dirs = {}
    /\ opencode_json = <<>>
    /\ other_json = <<>>
    /\ mcp_server = NewMcpServer([status_url |-> <<>>, session_id |-> <<>>,
                                  instance_id |-> <<>>], <<>>, "none")

StatusServerInit ==
    /\ DiskInit
    /\ instance_id \in InstanceIds
    /\ session_projects = EmptyMap
    /\ handler = IdleHandler
    /\ listeners = [p \in ContendedPorts |->
                       IF p = RANGE_START THEN instance_id ELSE "free"]
    /\ servers = [i \in InstanceIds |->
                     IF i = instance_id THEN Serving(RANGE_START) ELSE IdleServer]

\* an instance of the application calls StatusServer::start
start_begin(i) ==
    /\ servers[i].pc = "idle"
    /\ servers' = [servers EXCEPT ![i] = [@ EXCEPT !.pc = "scan",
                                                   !.next = RANGE_START]]
    /\ effect' = NoEffect
    /\ UNCHANGED <<instance_id, disk_vars, mcp_server, session_projects, handler, listeners, pm_vars>>

\* find_and_bind_port: one pass of the loop, the bind on the next port.
\* Ok: the listener is returned with its port. Err: the loop goes on, and
\* after the last port the function returns None, and start with it (the ?)
find_and_bind_port(i) ==
    /\ servers[i].pc = "scan"
    /\ LET port == servers[i].next IN
       IF BindSucceeds(port)
       THEN /\ listeners' = [listeners EXCEPT ![port] = i]
            /\ servers' = [servers EXCEPT ![i] = [@ EXCEPT !.pc = "bound",
                                                           !.port = port]]
       ELSE /\ listeners' = listeners
            /\ servers' = [servers EXCEPT ![i] =
                   [@ EXCEPT !.tried = @ \cup (port .. (NextAttempt(port) - 1)),
                             !.next = NextAttempt(port),
                             !.pc = IF NextAttempt(port) > RANGE_END
                                    THEN "disabled" ELSE "scan"]]
    /\ effect' = NoEffect
    /\ UNCHANGED <<instance_id, disk_vars, mcp_server, session_projects, handler, pm_vars>>

\* the rest of start: the router, tokio::spawn of axum::serve(listener, app)
\* and Some(Self { port, .. })
start_serve(i) ==
    /\ servers[i].pc = "bound"
    /\ servers' = [servers EXCEPT ![i] = [@ EXCEPT !.pc = "serving",
                                                   !.task = TRUE]]
    /\ effect' = NoEffect
    /\ UNCHANGED <<instance_id, disk_vars, mcp_server, session_projects, handler, listeners, pm_vars>>

\* another process binds a free port of the range
other_bind(port) ==
    /\ listeners[port] = "free"
    /\ listeners' = [listeners EXCEPT ![port] = "other"]
    /\ effect' = NoEffect
    /\ UNCHANGED <<instance_id, disk_vars, mcp_server, session_projects, handler, servers, pm_vars>>

\* another process closes its socket
other_release(port) ==
    /\ listeners[port] = "other"
    /\ listeners' = [listeners EXCEPT ![port] = "free"]
    /\ effect' = NoEffect
    /\ UNCHANGED <<instance_id, disk_vars, mcp_server, session_projects, handler, servers, pm_vars>>

\* StatusServer::register_session and unregister_session: the write-locked
\* update of the map
register_session(session_id, project_path) ==
    session_projects' = MapInsert(session_projects, session_id, project_path)

unregister_session(session_id) ==
    session_projects' = MapRemove(session_projects, session_id)

\* a caller of the session-creation flow registers a session
do_register_session(session_id, project_path) ==
    /\ register_session(session_id, project_path)
    /\ effect' = NoEffect
    /\ UNCHANGED <<instance_id, disk_vars, mcp_server, net_vars, handler, pm_vars>>

\* a caller of the session-termination flow unregisters a session
do_unregister_session(session_id) ==
    /\ unregister_session(session_id)
    /\ effect' = NoEffect
    /\ UNCHANGED <<instance_id, disk_vars, mcp_server, net_vars, handler, pm_vars>>

\* a POST /status arrives with a body that parses as a StatusRequest
handle_status_lookup(requests) ==
    /\ handler.pc # "emit"
    /\ \E payload \in requests :
           handler' = HandleLookup(payload, instance_id, session_projects)
    /\ effect' = NoEffect
    /\ UNCHANGED <<instance_id, disk_vars, mcp_server, net_vars, session_projects, pm_vars>>

handle_status_emit ==
    /\ handler.pc = "emit"
    /\ \E ok \in BOOLEAN : handler' = HandleEmit(handler, ok)
    /\ effect' = NoEffect
    /\ UNCHANGED <<instance_id, disk_vars, mcp_server, net_vars, session_projects, pm_vars>>

\* a POST /status whose body the Json extractor rejects: handle_status is
\* not entered
reject_malformed ==
    /\ handler.pc # "emit"
    /\ handler' = [IdleHandler EXCEPT !.pc = "rejected", !.code = REJECTED]
    /\ effect' = NoEffect
    /\ UNCHANGED <<instance_id, disk_vars, mcp_server, net_vars, session_projects, pm_vars>>

\* ------------------------------------------ the status-reporting helper

\* StatusServer::status_url: format!("http://127.0.0.1:{}/status", port)
status_url(port) == [host |-> "127.0.0.1", port |-> port, path |-> "/status"]

\* the enum of state in the inputSchema of the maestro_status tool
SchemaStates == {"idle", "working", "needs_input", "finished", "error"}

\* the environment a helper is started with, as main reads it:
\* MAESTRO_STATUS_URL, MAESTRO_SESSION_ID (parsed as u32), MAESTRO_INSTANCE_ID;
\* each an Option. The helpers of the sessions of either instance, told the
\* URL of port 9900, and helpers with one variable missing or another URL.
Reporters ==
    [status_url : {<<status_url(9900)>>},
     session_id : {<<id>> : id \in SessionIds},
     instance_id : {<<i>> : i \in InstanceIds}]
    \cup
    {[status_url |-> <<>>, session_id |-> <<1>>, instance_id |-> <<"inst-A">>],
     [status_url |-> <<status_url(9901)>>, session_id |-> <<1>>,
      instance_id |-> <<"inst-A">>],
     [status_url |-> <<status_url(9900)>>, session_id |-> <<>>,
      instance_id |-> <<"inst-A">>],
     [status_url |-> <<status_url(9900)>>, session_id |-> <<1>>,
      instance_id |-> <<>>]}

\* the arguments of a tools/call of maestro_status: each may be missing;
\* a prompt comes with needs_input
ToolArguments ==
    {a \in [state : {<<>>} \cup {<<st>> : st \in SchemaStates \cup {"done"}},
            message : {<<>>, <<"compiling">>},
            needsInputPrompt : Prompts] :
        a.needsInputPrompt # <<>> => a.state = <<"needs_input">>}

\* the arguments the inputSchema accepts: state of the enum, message given
SchemaValid(arguments) ==
    /\ arguments.state # <<>>
    /\ arguments.state[1] \in SchemaStates
    /\ arguments.message # <<>>

\* Option::unwrap_or
UnwrapOr(opt, default) == IF opt = <<>> THEN default ELSE opt[1]

\* a reporter that does not send its session id
report_status_no_session(reporter, state, message, needs_input_prompt) ==
    IF reporter.status_url = <<>>
    THEN <<>>
    ELSE <<[url |-> reporter.status_url[1],
            payload |-> [session_id |-> 0,
                         instance_id |-> UnwrapOr(reporter.instance_id, "unknown"),
                         state |-> state,
                         message |-> message,
                         needs_input_prompt |-> needs_input_prompt]]>>

\* a report_status that sends its POST a second time
report_status_retry(reporter, state, message, needs_input_prompt) ==
    IF reporter.status_url = <<>>
    THEN <<>>
    ELSE LET post == [url |-> reporter.status_url[1],
                      payload |-> [session_id |-> UnwrapOr(reporter.session_id, 0),
                                   instance_id |-> UnwrapOr(reporter.instance_id, "unknown"),
                                   state |-> state,
                                   message |-> message,
                                   needs_input_prompt |-> needs_input_prompt]]
         IN  <<post, post>>

\* StatusReporter::report_status: no POST without a status URL, otherwise
\* the POST of a StatusPayload to the URL
report_status(reporter, state, message, needs_input_prompt) ==
    IF reporter.status_url = <<>>
    THEN <<>>
    ELSE <<[url |-> reporter.status_url[1],
            payload |-> [session_id |-> UnwrapOr(reporter.session_id, 0),
                         instance_id |-> UnwrapOr(reporter.instance_id, "unknown"),
                         state |-> state,
                         message |-> message,
                         needs_input_prompt |-> needs_input_prompt]]>>

\* McpServer::handle_tools_call for the tool maestro_status
handle_tools_call(reporter, arguments) ==
    report_status(reporter,
                  UnwrapOr(arguments.state, "working"),
                  UnwrapOr(arguments.message, ""),
                  arguments.needsInputPrompt)

\* a helper handles a maestro_status call; a POST to the URL of this
\* application's Status Server enters handle_status, any other is not seen
maestro_status(reporter, arguments) ==
    LET posts == handle_tools_call(reporter, arguments) IN
    IF posts # <<>>
          /\ posts[1].url = status_url(servers[instance_id].port)
    THEN handle_status_lookup({posts[1].payload})
    ELSE /\ effect' = NoEffect
         /\ UNCHANGED <<status_vars, pm_vars>>

\* ------------------------------------------------- the helper's stdio loop

\* the longest input of a helper, in lines
MaxLines == 2

\* what becomes of a POST: the Status Server answers 200, whether it took
\* the report or dropped it; something else answers with an error status;
\* or there is no answer (connection refused, timeout)
SendOutcomes == {"200 accepted", "200 dropped", "404", "failed"}

\* a report_status that takes an error status for a failure
report_status_result_by_status(reporter, outcome) ==
    IF reporter.status_url # <<>> /\ outcome \in {"404", "failed"}
    THEN "Err"
    ELSE "Ok"

\* the Result of StatusReporter::report_status: Err only from send().await?
report_status_result(reporter, outcome) ==
    IF reporter.status_url # <<>> /\ outcome = "failed" THEN "Err" ELSE "Ok"

\* a line of stdin: its text is empty, is not JSON, or is a JSON object of
\* which the members jsonrpc, id, method and params may be missing; params
\* holds the name and the arguments of a tools/call
Line(text, id, method, name, arguments) ==
    [text |-> text, jsonrpc |-> IF text = "json" THEN <<"2.0">> ELSE <<>>,
     id |-> id, method |-> method,
     params |-> [name |-> name, arguments |-> arguments]]

\* the lines a client may write
InputLines ==
    LET none == [state |-> <<>>, message |-> <<>>, needsInputPrompt |-> <<>>]
        some == [state |-> <<"working">>, message |-> <<"compiling">>,
                 needsInputPrompt |-> <<>>]
        ids == {<<>>, <<"1">>, <<"2">>}
    IN  {Line("", <<>>, <<>>, <<>>, none),
         Line("not json", <<>>, <<>>, <<>>, none),
         Line("json", <<"1">>, <<>>, <<>>, none),
         Line("json", <<"null">>, <<"ping">>, <<>>, none),
         Line("json", <<"1">>, <<"initialize">>, <<>>, none)}
        \cup {Line("json", id, <<method>>, <<>>, none) :
                  id \in ids,
                  method \in {"notifications/initialized", "tools/list",
                              "resources/list"}}
        \cup {Line("json", id, <<"tools/call">>, <<"maestro_status">>, some) :
                  id \in ids}
        \cup {Line("json", id, <<"tools/call">>, <<"other_tool">>, none) :
                  id \in ids}

\* a parse that takes an object without a method for a request
from_str_lenient(line) ==
    IF line.text # "json"
    THEN <<>>
    ELSE <<[id |-> IF line.id = <<"null">> THEN <<>> ELSE line.id,
            method |-> UnwrapOr(line.method, ""),
            params |-> line.params]>>

\* serde_json::from_str::<JsonRpcRequest>: jsonrpc and method are required,
\* an id that is missing or null is None
from_str(line) ==
    IF line.text # "json" \/ line.jsonrpc = <<>> \/ line.method = <<>>
    THEN <<>>
    ELSE <<[id |-> IF line.id = <<"null">> THEN <<>> ELSE line.id,
            method |-> line.method[1],
            params |-> line.params]>>

\* a handle_request that answers -32601 also when the report failed
handle_request_one_code(reporter, request, outcome) ==
    [response |-> IF request.id = <<>> THEN <<>>
                  ELSE <<[id |-> request.id[1], result |-> <<>>,
                          error |-> <<-32601>>]>>,
     posts |-> <<>>]

\* McpServer::handle_request with handle_tools_call: the response, if any,
\* and the POSTs of the status reporter
handle_request(reporter, request, outcome) ==
    IF request.id = <<>>
    THEN [response |-> <<>>, posts |-> <<>>]
    ELSE LET Result(result, posts) ==
                 [response |-> <<[id |-> request.id[1], result |-> <<result>>,
                                  error |-> <<>>]>>,
                  posts |-> posts]
             Error(code, posts) ==
                 [response |-> <<[id |-> request.id[1], result |-> <<>>,
                                  error |-> <<code>>]>>,
                  posts |-> posts]
         IN  CASE request.method = "initialize" -> Result("initialize", <<>>)
               [] request.method = "notifications/initialized" ->
                      [response |-> <<>>,
                       posts |-> report_status(reporter, "idle", "Ready", <<>>)]
               [] request.method = "tools/list" -> Result("tools", <<>>)
               [] request.method = "tools/call" ->
                      IF request.params.name = <<"maestro_status">>
                      THEN LET posts == handle_tools_call(
                                            reporter, request.params.arguments)
                           IN  IF report_status_result(reporter, outcome) = "Err"
                               THEN Error(-32000, posts)
                               ELSE Result("Status reported", posts)
                      ELSE Result("isError", <<>>)
               [] request.method = "ping" -> Result("{}", <<>>)
               [] OTHER -> Error(-32601, <<>>)

\* one turn of the loop of McpServer::run: a line is read; an empty line
\* and a line that does not parse are skipped; the response, if any, is
\* written, and run returns Err if the write fails
run_line(outcome, written) ==
    /\ mcp_server.pc = "running"
    /\ mcp_server.stdin # <<>>
    /\ LET line == Head(mcp_server.stdin)
           request == from_str(line)
           handled == IF line.text = "" \/ request = <<>>
                      THEN [response |-> <<>>, posts |-> <<>>]
                      ELSE handle_request(mcp_server.status_reporter,
                                          request[1], outcome)
       IN  mcp_server' =
               [mcp_server EXCEPT
                   !.stdin = Tail(@),
                   !.read = Append(@, line),
                   !.posts = @ \o [i \in 1 .. Len(handled.posts) |->
                                      [post |-> handled.posts[i],
                                       outcome |-> outcome]],
                   !.stdout = IF handled.response # <<>> /\ written
                              THEN Append(@, handled.response[1])
                              ELSE @,
                   !.pc = IF handled.response # <<>> /\ ~written
                          THEN "Err"
                          ELSE "running"]
    /\ effect' = [NoEffect EXCEPT !.by = "run"]
    /\ UNCHANGED <<instance_id, session_projects, handler, net_vars, disk_vars,
                   pm_vars>>

\* McpServer::run at the end of the input: Ok(())
run_end ==
    /\ mcp_server.pc = "running"
    /\ mcp_server.stdin = <<>>
    /\ mcp_server' = [mcp_server EXCEPT !.pc = "Ok"]
    /\ effect' = [NoEffect EXCEPT !.by = "run", !.status = "ok"]
    /\ UNCHANGED <<instance_id, session_projects, handler, net_vars, disk_vars,
                   pm_vars>>

\* ---------------------------------------------------- processes and calls

\* the processes of one run: pid 1 and the two the run may start
Pids == {1, 2, 3}

\* the working directories a caller may pass to spawn_shell: none, an
\* existing directory, an existing file, a path that does not exist
Cwds == {"none", "dir", "file", "missing"}

\* a command in flight: the command, where it is, what it was called with
\* or works on (session_id, pid), what it collected (roots, todo, and
\* session_pids, the root pid of each session), the sessions it has taken
\* out of the registry (killed), the process trees it has built (trees) and
\* what the Process Manager answered (result); for the caller of a
\* function its argument (input) and the values returned so far (values)
NewCall(op, pc) ==
    [op |-> op, pc |-> pc, session_id |-> 0, pid |-> 0,
     roots |-> {}, todo |-> {}, killed |-> {}, result |-> "none",
     session_pids |-> <<>>, trees |-> {}, input |-> <<>>, values |-> <<>>,
     args |-> <<>>]

InFlight == BagToSet(calls)
Started(call) == calls (+) SetToBag({call})
Finished(call) == calls (-) SetToBag({call})
Moved(call, next) == (calls (-) SetToBag({call})) (+) SetToBag({next})
CanStart == BagCardinality(calls) < MaxCalls

\* get_all_session_pids().into_iter().map(|(_, root_pid)| root_pid).collect()
SessionRootPids(sess) == {sess[s] : s \in DOMAIN sess}

\* ProcessManager::get_session_pid
get_session_pid(session_id) == MapGet(sessions, session_id)

\* the pid the OS gives the next process; a pid is not given twice
FreshPid == nprocs + 1

Signal(pid, sig, by) ==
    [NoEffect EXCEPT !.pid = pid, !.sig = sig, !.by = by,
                     !.to_root = pid \in SessionRootPids(sessions)]

Return(by, status, id, pid, ids) ==
    [NoEffect EXCEPT !.by = by, !.status = status, !.id = id, !.pid = pid,
                     !.ids = ids, !.count = Cardinality(ids)]

\* no session yet; pid 1 is a live process that is no session's root
ProcessManagerInit ==
    /\ sessions = EmptyMap
    /\ nprocs = 1
    /\ alive = {1}
    /\ calls = EmptyBag
    /\ effect = NoEffect

\* the processes of this run are children of the application, which is
\* outside the table
NoParents == [p \in Pids |-> 0]

\* ------------------------------------------------------------ environment

\* a live process exits, on its own or because of a signal it received
proc_exit(p) ==
    /\ p \in alive
    /\ alive' = alive \ {p}
    /\ effect' = NoEffect
    /\ UNCHANGED <<status_vars, parent, sessions, nprocs, calls>>

\* ------------------------------------------------------------ spawn_shell

\* a validation that canonicalizes and leaves out is_dir
ValidCwdExists(cwd) == cwd \in {"none", "dir", "file"}

\* the cwd validation of the spawn_shell command: canonicalize, then is_dir
ValidCwd(cwd) == cwd \in {"none", "dir"}

\* a spawn that takes any id, active or not
pm_spawn_shell_any_id(cwd) ==
    \/ /\ FreshPid \in Pids
       /\ \E id \in SessionIds :
            /\ sessions' = MapInsert(sessions, id, FreshPid)
            /\ effect' = [Return("spawn_shell", "ok", id, FreshPid, {})
                              EXCEPT !.cwd = cwd]
       /\ nprocs' = FreshPid
       /\ alive' = alive \cup {FreshPid}
    \/ /\ effect' = [Return("spawn_shell", "err", 0, 0, {})
                         EXCEPT !.cwd = cwd]
       /\ UNCHANGED <<sessions, nprocs, alive>>

\* ProcessManager::spawn_shell: a pseudo-terminal and a shell in it,
\* registered under an id no active session has
pm_spawn_shell(cwd) ==
    \/ /\ FreshPid \in Pids
       /\ \E id \in SessionIds \ DOMAIN sessions :
            /\ sessions' = MapInsert(sessions, id, FreshPid)
            /\ effect' = [Return("spawn_shell", "ok", id, FreshPid, {})
                              EXCEPT !.cwd = cwd]
       /\ nprocs' = FreshPid
       /\ alive' = alive \cup {FreshPid}
    \/ /\ effect' = [Return("spawn_shell", "err", 0, 0, {})      \* the OS refuses
                         EXCEPT !.cwd = cwd]
       /\ UNCHANGED <<sessions, nprocs, alive>>

spawn_shell(cwd) ==
    /\ IF ValidCwd(cwd)
       THEN pm_spawn_shell(cwd)
       ELSE /\ effect' = [Return("spawn_shell", "rejected", 0, 0, {})
                             EXCEPT !.cwd = cwd]
            /\ UNCHANGED <<sessions, nprocs, alive>>
    /\ UNCHANGED <<status_vars, parent, calls>>

\* ----------------------------------------------------------- kill_session

\* a kill that answers "session not found" for an unknown id
pm_kill_session_unknown_fails(session_id) ==
    IF session_id \notin DOMAIN sessions
    THEN /\ calls' = Started([NewCall("kill_session", "unregister") EXCEPT
                                 !.session_id = session_id, !.result = "err"])
         /\ effect' = NoEffect
         /\ UNCHANGED sessions
    ELSE /\ calls' = Started([NewCall("kill_session", "grace") EXCEPT
                                 !.session_id = session_id,
                                 !.pid = sessions[session_id]])
         /\ effect' = Signal(sessions[session_id], "TERM", "kill_session")
         /\ UNCHANGED sessions

\* a kill that takes the session out of the registry before it signals
pm_kill_session_remove_first(session_id) ==
    IF session_id \notin DOMAIN sessions
    THEN /\ calls' = Started([NewCall("kill_session", "unregister") EXCEPT
                                 !.session_id = session_id, !.result = "ok"])
         /\ effect' = NoEffect
         /\ UNCHANGED sessions
    ELSE /\ calls' = Started([NewCall("kill_session", "grace") EXCEPT
                                 !.session_id = session_id,
                                 !.pid = sessions[session_id]])
         /\ effect' = Signal(sessions[session_id], "TERM", "kill_session")
         /\ sessions' = MapRemove(sessions, session_id)

\* ProcessManager::kill_session, first part: an unknown id succeeds at
\* once; otherwise the graceful signal goes to the root process, unless
\* sending it fails
pm_kill_session_begin(session_id) ==
    IF session_id \notin DOMAIN sessions
    THEN /\ calls' = Started([NewCall("kill_session", "unregister") EXCEPT
                                 !.session_id = session_id, !.result = "ok"])
         /\ effect' = NoEffect
         /\ UNCHANGED sessions
    ELSE \/ /\ calls' = Started([NewCall("kill_session", "grace") EXCEPT
                                    !.session_id = session_id,
                                    !.pid = sessions[session_id]])
            /\ effect' = Signal(sessions[session_id], "TERM", "kill_session")
            /\ UNCHANGED sessions
         \/ /\ sessions[session_id] \in alive
            /\ calls' = Started([NewCall("kill_session", "unregister") EXCEPT
                                    !.session_id = session_id,
                                    !.pid = sessions[session_id],
                                    !.result = "err"])
            /\ effect' = NoEffect
            /\ UNCHANGED sessions

\* the kill_session command is invoked: it calls ProcessManager::kill_session
kill_session_begin(session_id) ==
    /\ CanStart
    /\ pm_kill_session_begin(session_id)
    /\ UNCHANGED <<status_vars, parent, nprocs, alive>>

\* where a call goes once the session it killed is out of the registry
AfterRemove(call) ==
    IF call.op = "kill_session"
    THEN [call EXCEPT !.pc = "unregister", !.result = "ok",
                      !.killed = {call.session_id}]
    ELSE [call EXCEPT !.pc = "next",
                      !.killed = call.killed \cup {call.session_id},
                      !.todo = call.todo \ {call.session_id},
                      !.session_id = 0, !.pid = 0]

\* the registry once the kill of call is over
RemoveSession(sess, call) ==
    IF MapGet(sess, call.session_id) = <<call.pid>>
    THEN MapRemove(sess, call.session_id)
    ELSE sess

\* a kill that sends the forceful kill whether or not the root is alive
pm_kill_finish_always_force(call) ==
    /\ call \in InFlight
    /\ call.pc = "grace"
    /\ call.op \in {"kill_session", "kill_all_sessions"}
    /\ effect' = Signal(call.pid, "KILL", call.op)
    /\ alive' = alive \ {call.pid}
    /\ sessions' = RemoveSession(sessions, call)
    /\ calls' = Moved(call, AfterRemove(call))
    /\ UNCHANGED <<status_vars, parent, nprocs>>

\* the grace period of a session kill ends: a root still alive gets the
\* forceful kill; the root is reaped and the session leaves the registry
pm_kill_finish(call) ==
    /\ call \in InFlight
    /\ call.pc = "grace"
    /\ call.op \in {"kill_session", "kill_all_sessions"}
    /\ IF call.pid \in alive
       THEN /\ effect' = Signal(call.pid, "KILL", call.op)
            /\ alive' = alive \ {call.pid}
       ELSE /\ effect' = NoEffect
            /\ UNCHANGED alive
    /\ sessions' = RemoveSession(sessions, call)
    /\ calls' = Moved(call, AfterRemove(call))
    /\ UNCHANGED <<status_vars, parent, nprocs>>

\* a command that drops the Process Manager's result and answers Ok(())
KillSessionResultDropped(call) == "ok"

\* the kill_session command after pm.kill_session(..).await: it unregisters
\* the session from the status server and returns the Process Manager's result
KillSessionResult(call) == call.result

kill_session_unregister(call) ==
    /\ call \in InFlight
    /\ call.pc = "unregister"
    /\ unregister_session(call.session_id)
    /\ calls' = Finished(call)
    /\ effect' = [Return("kill_session", KillSessionResult(call),
                          call.session_id, call.pid, call.killed)
                      EXCEPT !.unregistered = call.session_id \in DOMAIN session_projects]
    /\ UNCHANGED <<instance_id, disk_vars, mcp_server, net_vars, handler, sessions, nprocs, alive, parent>>

\* ------------------------------------------------------ kill_all_sessions

\* the kill_all_sessions command: ProcessManager::kill_all_sessions takes
\* the active sessions (their ids in todo, their roots in roots) and kills
\* them one after the other
kill_all_sessions_begin ==
    /\ CanStart
    /\ calls' = Started([NewCall("kill_all_sessions", "next") EXCEPT
                            !.todo = DOMAIN sessions,
                            !.roots = SessionRootPids(sessions)])
    /\ effect' = NoEffect
    /\ UNCHANGED <<status_vars, parent, sessions, nprocs, alive>>

\* a kill_all_sessions that passes over the sessions instead of killing them
kill_all_sessions_skip(call) ==
    /\ call \in InFlight
    /\ call.pc = "next"
    /\ IF call.todo = {}
       THEN /\ calls' = Finished(call)
            /\ effect' = Return("kill_all_sessions", "ok", 0, 0, call.killed)
       ELSE /\ calls' = Moved(call, [call EXCEPT
                                        !.todo = call.todo \ {Min(call.todo)}])
            /\ effect' = NoEffect
    /\ UNCHANGED <<status_vars, parent, sessions, nprocs, alive>>

kill_all_sessions_next(call) ==
    /\ call \in InFlight
    /\ call.pc = "next"
    /\ IF call.todo = {}
       THEN /\ calls' = Finished(call)
            /\ effect' = Return("kill_all_sessions", "ok", 0, 0, call.killed)
       ELSE LET id == Min(call.todo) IN
            IF id \in DOMAIN sessions
            THEN /\ calls' = Moved(call, [call EXCEPT !.pc = "grace",
                                             !.session_id = id,
                                             !.pid = sessions[id]])
                 /\ effect' = Signal(sessions[id], "TERM", "kill_all_sessions")
            ELSE /\ calls' = Moved(call, [call EXCEPT !.todo = call.todo \ {id}])
                 /\ effect' = NoEffect
    /\ UNCHANGED <<status_vars, parent, sessions, nprocs, alive>>

\* ----------------------------------------------------------- kill_process

\* the kill_process command collects the root pids of the sessions
kill_process_begin(pid) ==
    /\ CanStart
    /\ calls' = Started([NewCall("kill_process", "check") EXCEPT
                            !.pid = pid,
                            !.roots = SessionRootPids(sessions)])
    /\ effect' = NoEffect
    /\ UNCHANGED <<status_vars, parent, sessions, nprocs, alive>>

\* process_tree::kill_process: refuse a session root, otherwise send the
\* graceful signal
kill_process_signal(call) ==
    /\ call \in InFlight
    /\ call.pc = "check"
    /\ IF call.pid \in call.roots \/ call.pid \notin alive
       THEN /\ calls' = Finished(call)
            /\ effect' = Return("kill_process", "err", 0, 0, {})
       ELSE /\ calls' = Moved(call, [call EXCEPT !.pc = "grace", !.roots = {}])
            /\ effect' = Signal(call.pid, "TERM", "kill_process")
    /\ UNCHANGED <<status_vars, parent, sessions, nprocs, alive>>

\* the wait of kill_process ends: a process still alive gets the forceful kill
kill_process_grace_end(call) ==
    /\ call \in InFlight
    /\ call.pc = "grace"
    /\ call.op = "kill_process"
    /\ IF call.pid \in alive
       THEN /\ effect' = [Signal(call.pid, "KILL", "kill_process")
                                EXCEPT !.status = "ok"]
            /\ alive' = alive \ {call.pid}
       ELSE /\ effect' = Return("kill_process", "ok", 0, 0, {})
            /\ UNCHANGED alive
    /\ calls' = Finished(call)
    /\ UNCHANGED <<status_vars, parent, sessions, nprocs>>

\* ------------------------------------------------- write_stdin, resize_pty

\* u16 values a caller may pass as rows and cols
Dims == {0, 1, 2, 499, 500, 501, 65535}
\* the smallest and the largest dimension the validation lets through
BoundaryDims == {1, 500}
Data == {"ls\r"}

\* a write or a resize as the Process Manager receives it
PtyRequest(session_id, rows, cols, data) ==
    [session_id |-> session_id, rows |-> rows, cols |-> cols, data |-> data]

\* a validation that refuses 500 as well
ValidDimensionsBelow500(rows, cols) ==
    ~(rows = 0 \/ cols = 0 \/ rows >= 500 \/ cols >= 500)

\* the validation of the resize_pty command
ValidDimensions(rows, cols) ==
    ~(rows = 0 \/ cols = 0 \/ rows > 500 \/ cols > 500)

\* a Process Manager that ignores a write or resize for an unknown session
PtyAnswersOkAlways(session_id) == {"ok"}

\* ProcessManager::write_stdin and resize_pty: an unknown session is an
\* error; for a known one the OS may still refuse
PtyAnswers(session_id) ==
    IF session_id \in DOMAIN sessions THEN {"ok", "err"} ELSE {"err"}

pm_resize_pty(session_id, rows, cols) ==
    \E status \in PtyAnswers(session_id) :
        effect' = [Return("resize_pty", status, session_id, 0, {}) EXCEPT
                      !.rows = rows, !.cols = cols,
                      !.forwarded = <<PtyRequest(session_id, rows, cols, "")>>]

\* the resize_pty command
resize_pty(session_id, rows, cols) ==
    /\ IF ValidDimensions(rows, cols)
       THEN pm_resize_pty(session_id, rows, cols)
       ELSE effect' = [Return("resize_pty", "rejected", session_id, 0, {}) EXCEPT
                          !.rows = rows, !.cols = cols]
    /\ UNCHANGED <<status_vars, pm_vars>>

pm_write_stdin(session_id, data) ==
    \E status \in PtyAnswers(session_id) :
        effect' = [Return("write_stdin", status, session_id, 0, {}) EXCEPT
                      !.forwarded = <<PtyRequest(session_id, 0, 0, data)>>]

\* the write_stdin command
write_stdin(session_id, data) ==
    /\ pm_write_stdin(session_id, data)
    /\ UNCHANGED <<status_vars, pm_vars>>

\* ---------------------------------------------------------- process trees

\* the snapshot of the OS process table, taken once per call
Snapshot == [pids |-> alive, ppid |-> parent]

\* the processes of the snapshot that are children of one of ps
Children(snapshot, ps) == {q \in snapshot.pids : snapshot.ppid[q] \in ps}

\* a walk that stops at the children of the root
WalkOneLevel(snapshot, found) == found \cup Children(snapshot, found)

\* the root and the processes found by walking down from it
RECURSIVE Walk(_, _)
Walk(snapshot, found) ==
    IF Children(snapshot, found) \subseteq found
    THEN found
    ELSE Walk(snapshot, found \cup Children(snapshot, found))

\* process_tree::get_process_tree: None for a root that is not in the
\* snapshot, otherwise the tree under the root
get_process_tree(session_id, root_pid, snapshot) ==
    IF root_pid \notin snapshot.pids
    THEN <<>>
    ELSE <<[session_id |-> session_id,
            root_pid |-> root_pid,
            nodes |-> Walk(snapshot, {root_pid})]>>

\* process_tree::get_all_process_trees: the trees of the sessions whose
\* root is in the one snapshot
get_all_process_trees_of(sess, snapshot) ==
    {get_process_tree(s, sess[s], snapshot)[1] :
        s \in {x \in DOMAIN sess : sess[x] \in snapshot.pids}}

\* a command that answers an error for a session it does not find
get_session_process_tree_or_err(session_id) ==
    /\ effect' =
          IF get_session_pid(session_id) = <<>>
          THEN Return("get_session_process_tree", "err", session_id, 0, {})
          ELSE [Return("get_session_process_tree", "ok", session_id,
                       get_session_pid(session_id)[1], {}) EXCEPT
                   !.trees = {get_process_tree(session_id,
                                               get_session_pid(session_id)[1],
                                               Snapshot)[i] : i \in {1}}]
    /\ UNCHANGED <<status_vars, pm_vars>>

\* the get_session_process_tree command: Ok(None) for a session without a
\* pid, otherwise Ok of what get_process_tree answers; trees holds the
\* tree, if any
get_session_process_tree(session_id) ==
    /\ effect' =
          IF get_session_pid(session_id) = <<>>
          THEN Return("get_session_process_tree", "ok", session_id, 0, {})
          ELSE LET root_pid == get_session_pid(session_id)[1]
                   tree == get_process_tree(session_id, root_pid, Snapshot)
               IN  [Return("get_session_process_tree", "ok", session_id,
                           root_pid, {}) EXCEPT
                       !.trees = {tree[i] : i \in DOMAIN tree}]
    /\ UNCHANGED <<status_vars, pm_vars>>

\* the get_all_process_trees command
get_all_process_trees ==
    /\ effect' = [Return("get_all_process_trees", "ok", 0, 0, {}) EXCEPT
                      !.trees = get_all_process_trees_of(sessions, Snapshot)]
    /\ UNCHANGED <<status_vars, pm_vars>>

\* a live process starts a child
proc_fork(p) ==
    /\ p \in alive
    /\ FreshPid \in Pids
    /\ nprocs' = FreshPid
    /\ alive' = alive \cup {FreshPid}
    /\ parent' = [parent EXCEPT ![FreshPid] = p]
    /\ effect' = NoEffect
    /\ UNCHANGED <<status_vars, sessions, calls>>

\* the get_all_process_trees command, first half:
\* let sessions = pm.get_all_session_pids()
get_all_process_trees_begin ==
    /\ CanStart
    /\ calls' = Started([NewCall("get_all_process_trees", "build") EXCEPT
                            !.session_pids = sessions,
                            !.todo = DOMAIN sessions])
    /\ effect' = NoEffect
    /\ UNCHANGED <<status_vars, parent, sessions, nprocs, alive>>

\* an inspector that refreshes the process list for every session: one
\* session per step, each tree from the process table of its own step
get_all_process_trees_one_by_one(call) ==
    /\ call \in InFlight
    /\ call.op = "get_all_process_trees"
    /\ call.pc = "build"
    /\ IF call.todo = {}
       THEN /\ calls' = Finished(call)
            /\ effect' = [Return("get_all_process_trees", "ok", 0, 0, {})
                              EXCEPT !.trees = call.trees]
       ELSE LET s == Min(call.todo)
                tree == get_process_tree(s, call.session_pids[s], Snapshot)
            IN  /\ calls' = Moved(call,
                        [call EXCEPT !.todo = call.todo \ {s},
                                     !.trees = call.trees \cup
                                         {tree[i] : i \in DOMAIN tree}])
                /\ effect' = NoEffect
    /\ UNCHANGED <<status_vars, parent, sessions, nprocs, alive>>

\* the get_all_process_trees command, second half:
\* process_tree::get_all_process_trees(&sessions) refreshes the process
\* list once and builds the tree of every session it was given from it
get_all_process_trees_build(call) ==
    /\ call \in InFlight
    /\ call.op = "get_all_process_trees"
    /\ call.pc = "build"
    /\ calls' = Finished(call)
    /\ effect' = [Return("get_all_process_trees", "ok", 0, 0, {}) EXCEPT
                      !.trees = get_all_process_trees_of(call.session_pids,
                                                         Snapshot)]
    /\ UNCHANGED <<status_vars, parent, sessions, nprocs, alive>>

\* --------------------------------------------------------- project hash

\* strings as sequences of bytes: "", "/", "/a", "/b", "/a/b"
HashInputs == {<<>>, <<47>>, <<47, 97>>, <<47, 98>>, <<47, 97, 47, 98>>}

RECURSIVE WeightedSum(_, _)
WeightedSum(bytes, k) ==
    IF bytes = <<>>
    THEN 0
    ELSE (Len(bytes) + k) * bytes[Len(bytes)]
             + WeightedSum(SubSeq(bytes, 1, Len(bytes) - 1), k)

\* Sha256::new, update(bytes), finalize: 32 bytes that depend on the bytes
\* hashed and on nothing else. The digest function itself is replaced by a
\* stand-in with that property.
Sha256(bytes) ==
    [i \in 1 .. 32 |-> (WeightedSum(bytes, i) + 7 * Len(bytes) + 131 * i) % 256]

HexDigits ==
    <<"0", "1", "2", "3", "4", "5", "6", "7",
      "8", "9", "a", "b", "c", "d", "e", "f">>

\* hex::encode: two lower-case hexadecimal characters for every byte
RECURSIVE HexEncode(_)
HexEncode(bytes) ==
    IF bytes = <<>>
    THEN <<>>
    ELSE <<HexDigits[(bytes[1] \div 16) + 1], HexDigits[(bytes[1] % 16) + 1]>>
             \o HexEncode(Tail(bytes))

\* a hash over the path and the number of registered sessions
generate_project_hash_salted(project_path) ==
    HexEncode(SubSeq(Sha256(project_path
                               \o <<Cardinality(DOMAIN session_projects)>>),
                     1, 6))

\* StatusServer::generate_project_hash: hex::encode(&result[..6])
generate_project_hash(project_path) ==
    HexEncode(SubSeq(Sha256(project_path), 1, 6))

\* a caller hashes a path
hash_first(project_path) ==
    /\ CanStart
    /\ calls' = Started([NewCall("generate_project_hash", "second") EXCEPT
                            !.input = project_path,
                            !.values = <<generate_project_hash(project_path)>>])
    /\ effect' = [NoEffect EXCEPT !.by = "generate_project_hash",
                                  !.input = project_path,
                                  !.values = <<generate_project_hash(project_path)>>]
    /\ UNCHANGED <<status_vars, parent, sessions, nprocs, alive>>

\* and hashes the same path again
hash_second(call) ==
    /\ call \in InFlight
    /\ call.op = "generate_project_hash"
    /\ calls' = Finished(call)
    /\ effect' = [NoEffect EXCEPT !.by = "generate_project_hash",
                      !.input = call.input,
                      !.values = Append(call.values,
                                        generate_project_hash(call.input))]
    /\ UNCHANGED <<status_vars, parent, sessions, nprocs, alive>>

\* ------------------------------------------------------------ worktrees

\* the longest branch name, in characters
MaxBranchLen == 2

\* the characters of a branch name: the nine that sanitize_branch replaces,
\* and a letter, the dot and the hyphen
UnsafeChars == {"/", "\\", ":", "*", "?", "\"", "<", ">", "|"}
BranchChars == UnsafeChars \cup {"a", ".", "-"}

\* branch names as sequences of characters, the empty name included
BranchNames == UNION {[1 .. n -> BranchChars] : n \in 0 .. MaxBranchLen}

UNNAMED_BRANCH ==
    <<"u", "n", "n", "a", "m", "e", "d", "-", "b", "r", "a", "n", "c", "h">>

\* a sanitize_branch that also turns the dot into a hyphen
sanitize_branch_dots(branch) ==
    IF branch = <<>> \/ branch = <<".">> \/ branch = <<".", ".">>
    THEN UNNAMED_BRANCH
    ELSE [i \in 1 .. Len(branch) |->
             IF branch[i] \in UnsafeChars \cup {"."} THEN "-" ELSE branch[i]]

\* sanitize_branch
sanitize_branch(branch) ==
    IF branch = <<>> \/ branch = <<".">> \/ branch = <<".", ".">>
    THEN UNNAMED_BRANCH
    ELSE [i \in 1 .. Len(branch) |->
             IF branch[i] \in UnsafeChars THEN "-" ELSE branch[i]]

\* repository paths as bytes: "/r", "/l" (a symbolic link to "/r") and
\* "/x" (a path that does not exist)
RepoPaths == {<<47, 114>>, <<47, 108>>, <<47, 120>>}

\* tokio::fs::canonicalize(repo_path): Ok of the resolved path, or an error
Canonicalize(path) ==
    CASE path = <<47, 114>> -> <<path>>
      [] path = <<47, 108>> -> <<(<<47, 114>>)>>
      [] OTHER -> <<>>

\* repo_hash: the first 16 hexadecimal characters of the digest of the
\* canonical path, of the raw path if it cannot be canonicalized
repo_hash(repo_path) ==
    HexEncode(SubSeq(Sha256(UnwrapOr(Canonicalize(repo_path), repo_path)), 1, 8))

\* worktree_base_dir: the data directory of the application, then "worktrees"
worktree_base_dir == <<"data_dir", "worktrees">>

\* base directories a caller may pass as override
BaseOverrides == {<<>>, <<(<<"tmp", "base">>)>>}

effective_base_dir(base_override) == UnwrapOr(base_override, worktree_base_dir)

\* WorktreeManager::worktree_path_with_base: a path is the sequence of its
\* components; join adds one component
worktree_path_with_base(repo_path, branch, base_override) ==
    effective_base_dir(base_override)
        \o <<repo_hash(repo_path)>> \o <<sanitize_branch(branch)>>

\* a caller sanitizes a branch name, and the result again
sanitize_twice(branch) ==
    /\ effect' = [NoEffect EXCEPT
                      !.by = "sanitize_branch",
                      !.input = branch,
                      !.values = <<sanitize_branch(branch),
                                   sanitize_branch(sanitize_branch(branch))>>]
    /\ UNCHANGED <<status_vars, pm_vars>>

\* a caller asks for the worktree path of a branch of a repository
worktree_path_first(repo_path, base_override, branch) ==
    /\ CanStart
    /\ calls' = Started([NewCall("worktree_path", "second") EXCEPT
                            !.args = <<repo_path, base_override>>,
                            !.input = <<branch>>,
                            !.values =
                                <<worktree_path_with_base(repo_path, branch,
                                                          base_override)>>])
    /\ effect' = [NoEffect EXCEPT !.by = "worktree_path_first"]
    /\ UNCHANGED <<status_vars, parent, sessions, nprocs, alive>>

\* and then for the path of a branch of the same repository, under the same
\* base directory
worktree_path_second(call, branch) ==
    /\ call \in InFlight
    /\ call.op = "worktree_path"
    /\ calls' = Finished(call)
    /\ effect' = [NoEffect EXCEPT
                      !.by = "worktree_path",
                      !.input = Append(call.input, branch),
                      !.values =
                          Append(call.values,
                                 worktree_path_with_base(call.args[1], branch,
                                                         call.args[2]))]
    /\ UNCHANGED <<status_vars, parent, sessions, nprocs, alive>>

\* the repository "/r" of the main worktree
REPO == <<47, 114>>

\* its branches: "m", and "a/" and "a-", which sanitize_branch maps to one name
RepoBranches == {<<"m">>, <<"a", "/">>, <<"a", "-">>}

\* a check that does not skip the main worktree
CheckedOutInAny(existing, branch) ==
    {wt \in existing : wt.branch = <<branch>>}

\* the loop of create_with_base: the worktrees, the main one skipped, that
\* have the branch checked out
CheckedOutIn(existing, branch) ==
    {wt \in existing : ~wt.is_main_worktree /\ wt.branch = <<branch>>}

\* Path::parent
Parent(path) == SubSeq(path, 1, Len(path) - 1)

\* git worktree add <path> <branch>: git refuses a branch that is checked
\* out in any worktree, and a path that exists
GitCanAdd(path, branch) ==
    /\ \A wt \in worktrees : wt.branch # <<branch>> /\ wt.path # path
    /\ path \notin dirs

\* WorktreeManager::create_with_base up to the end of the loop: the branch is
\* found in another worktree and the call returns the error, or the path of
\* the new worktree is computed
create_begin(branch, base_override) ==
    /\ CanStart
    /\ LET existing == worktrees   \* git.worktree_list()
           found == CheckedOutIn(existing, branch)
       IN  IF found # {}
           THEN /\ \E wt \in found :
                     effect' = [NoEffect EXCEPT
                                   !.by = "create",
                                   !.status = "BranchAlreadyCheckedOut",
                                   !.input = branch,
                                   !.values = <<wt.path>>]
                /\ UNCHANGED calls
           ELSE /\ calls' = Started([NewCall("create", "create_dir_all") EXCEPT
                                        !.input = branch,
                                        !.args = <<REPO, base_override>>,
                                        !.values =
                                            <<worktree_path_with_base(
                                                  REPO, branch, base_override)>>])
                /\ effect' = [NoEffect EXCEPT !.by = "create_check"]
    /\ UNCHANGED <<status_vars, parent, sessions, nprocs, alive>>

\* WorktreeManager::create: create_with_base without a base directory
create(branch) == create_begin(branch, <<>>)

\* create_with_base: tokio::fs::create_dir_all(parent), which may fail
create_dir_all(call) ==
    /\ call \in InFlight
    /\ call.op = "create"
    /\ call.pc = "create_dir_all"
    /\ \/ /\ dirs' = dirs \cup {Parent(call.values[1])}
          /\ calls' = Moved(call, [call EXCEPT !.pc = "worktree_add"])
          /\ effect' = [NoEffect EXCEPT !.by = "create_dir_all"]
       \/ /\ calls' = Finished(call)
          /\ effect' = [NoEffect EXCEPT !.by = "create",
                                        !.status = "SpawnError",
                                        !.input = call.input]
          /\ UNCHANGED dirs
    /\ UNCHANGED <<instance_id, session_projects, handler, net_vars, mcp_server,
                   worktrees, opencode_json, other_json, parent, sessions, nprocs, alive>>

\* create_with_base: git.worktree_add(&wt_path, None, Some(branch)), then
\* Ok(wt_path); an error of git is returned as it is
create_worktree_add(call) ==
    /\ call \in InFlight
    /\ call.op = "create"
    /\ call.pc = "worktree_add"
    /\ calls' = Finished(call)
    /\ LET wt_path == call.values[1]
       IN  IF GitCanAdd(wt_path, call.input)
           THEN /\ worktrees' = worktrees \cup
                                    {[path |-> wt_path,
                                      branch |-> <<call.input>>,
                                      is_main_worktree |-> FALSE]}
                /\ dirs' = dirs \cup {wt_path}
                /\ effect' = [NoEffect EXCEPT !.by = "create",
                                              !.status = "ok",
                                              !.input = call.input,
                                              !.values = <<wt_path>>]
           ELSE /\ effect' = [NoEffect EXCEPT !.by = "create",
                                              !.status = "worktree_add failed",
                                              !.input = call.input]
                /\ UNCHANGED <<worktrees, dirs>>
    /\ UNCHANGED <<instance_id, session_projects, handler, net_vars, mcp_server,
                   opencode_json, other_json, parent, sessions, nprocs, alive>>

\* WorktreeManager::remove: git worktree remove --force and prune, then the
\* parent directory is removed if it is empty
remove(wt_path) ==
    /\ IF \E wt \in worktrees : wt.path = wt_path /\ ~wt.is_main_worktree
       THEN /\ worktrees' = {wt \in worktrees : wt.path # wt_path}
            /\ LET rest == dirs \ {wt_path}
               IN  dirs' = IF \E d \in rest : d # <<>> /\ Parent(d) = Parent(wt_path)
                           THEN rest
                           ELSE rest \ {Parent(wt_path)}
            /\ effect' = [NoEffect EXCEPT !.by = "remove", !.status = "ok",
                                          !.values = <<wt_path>>]
       ELSE /\ effect' = [NoEffect EXCEPT !.by = "remove",
                                          !.status = "worktree_remove failed",
                                          !.values = <<wt_path>>]
            /\ UNCHANGED <<worktrees, dirs>>
    /\ UNCHANGED <<instance_id, session_projects, handler, net_vars, mcp_server,
                   opencode_json, other_json, pm_vars>>

\* prepare_session_worktree, or the user, switches the main worktree to a
\* branch that no other worktree has checked out, or detaches its HEAD
checkout_main(target) ==
    /\ \A wt \in worktrees : wt.is_main_worktree \/ wt.branch # target \/ target = <<>>
    /\ MainWorktree(target) \notin worktrees
    /\ worktrees' = {wt \in worktrees : ~wt.is_main_worktree}
                        \cup {MainWorktree(target)}
    /\ effect' = [NoEffect EXCEPT !.by = "checkout"]
    /\ UNCHANGED <<instance_id, session_projects, handler, net_vars, mcp_server,
                   dirs, opencode_json, other_json, pm_vars>>

\* --------------------------------------------------------- opencode.json

\* JSON values: a tag and what the value holds
JString(str) == [t |-> "string", v |-> str]
JObject(map) == [t |-> "object", v |-> map]

\* server names as sequences of characters
MAESTRO == <<"m", "a", "e", "s", "t", "r", "o">>
MAESTRO_STATUS == MAESTRO \o <<"-", "s", "t", "a", "t", "u", "s">>
MAESTRO_STATUS_1 == MAESTRO_STATUS \o <<"-", "1">>
MAESTRO_2 == MAESTRO \o <<"-", "2">>
MAESTROS == MAESTRO \o <<"s">>
USER_SERVER == <<"u", "s", "e", "r", "-", "s", "e", "r", "v", "e", "r">>
DB == <<"d", "b">>

\* str::starts_with
StartsWith(str, prefix) ==
    /\ Len(str) >= Len(prefix)
    /\ SubSeq(str, 1, Len(prefix)) = prefix

\* a should_remove_server that takes every name beginning with "maestro"
should_remove_server_prefix(name) == StartsWith(name, MAESTRO)

\* should_remove_server
should_remove_server(name) ==
    \/ name = MAESTRO_STATUS
    \/ StartsWith(name, MAESTRO_STATUS \o <<"-">>)
    \/ (StartsWith(name, MAESTRO \o <<"-">>) /\ name # MAESTRO_STATUS)
    \/ name = MAESTRO

\* an McpServerConfig has a name and a server type: Stdio { command, args,
\* env } or Http { url }
McpServerConfig(name, server_type, command, args, env, url) ==
    [name |-> name, server_type |-> server_type, command |-> command,
     args |-> args, env |-> env, url |-> url]

\* server_config_to_opencode_json
server_config_to_opencode_json(config) ==
    IF config.server_type = "Stdio"
    THEN IF config.env # EmptyMap
         THEN [type |-> "local", command |-> <<config.command>> \o config.args,
               environment |-> config.env]
         ELSE [type |-> "local", command |-> <<config.command>> \o config.args]
    ELSE [type |-> "remote", url |-> config.url]

\* custom_server_to_opencode_json: an McpCustomServer has a name, a command,
\* arguments and an environment
custom_server_to_opencode_json(server) ==
    IF server.env # EmptyMap
    THEN [type |-> "local", command |-> <<server.command>> \o server.args,
          environment |-> server.env]
    ELSE [type |-> "local", command |-> <<server.command>> \o server.args]

\* HashMap::insert and serde_json::Map::insert
Insert(map, key, value) ==
    [k \in DOMAIN map \cup {key} |-> IF k = key THEN value ELSE map[k]]

\* the entry of the helper: json!({"type": "local", "command": [mcp_path],
\* "environment": {...}})
StatusEntry(mcp_path, session_id, url, instance) ==
    [type |-> "local", command |-> <<mcp_path>>,
     environment |-> [MAESTRO_SESSION_ID |-> ToString(session_id),
                      MAESTRO_STATUS_URL |-> url,
                      MAESTRO_INSTANCE_ID |-> instance]]

\* the loops over enabled_servers and custom_servers: a later server
\* replaces an earlier one of the same name
RECURSIVE InsertServers(_, _, _)
InsertServers(map, list, custom) ==
    IF list = <<>>
    THEN map
    ELSE InsertServers(
             Insert(map, list[1].name,
                    IF custom
                    THEN custom_server_to_opencode_json(list[1])
                    ELSE server_config_to_opencode_json(list[1])),
             Tail(list), custom)

\* mcp_servers as write_opencode_mcp_config builds it before it takes the lock
McpServers(mcp_path, session_id, url, instance, enabled_servers, custom_servers) ==
    LET first == IF mcp_path # <<>>
                 THEN Insert(EmptyMap, MAESTRO_STATUS,
                             StatusEntry(mcp_path[1], session_id, url, instance))
                 ELSE EmptyMap
    IN  InsertServers(InsertServers(first, enabled_servers, FALSE),
                      custom_servers, TRUE)

\* the text of a file: unparsable, or a JSON document; the members of a
\* top-level object are written one after the other and a key may be
\* written twice
Document(t, members) == [t |-> t, members |-> members]

\* serde_json::from_str::<Value>: of an object, the last member of a key
\* is the one that counts
FromStr(doc) ==
    IF doc.t = "object"
    THEN JObject([k \in {doc.members[i][1] : i \in DOMAIN doc.members} |->
                     LET last == CHOOSE i \in DOMAIN doc.members :
                                     /\ doc.members[i][1] = k
                                     /\ \A j \in DOMAIN doc.members :
                                            doc.members[j][1] = k => j <= i
                     IN  doc.members[last][2]])
    ELSE [t |-> doc.t, v |-> ""]

\* serde_json::to_string_pretty: every key once, in the order of the keys
ToStringPretty(value) ==
    IF value.t = "object"
    THEN LET keys == SelectSeq(<<"mcp", "model", "provider">>, LAMBDA k : k \in DOMAIN value.v)
         IN  Document("object",
                      [i \in 1 .. Len(keys) |-> <<keys[i], value.v[keys[i]]>>])
    ELSE Document(value.t, <<>>)

\* config["mcp"] = json!({}) when config has no "mcp": null becomes an object
EnsureMcp(config) ==
    IF config.t = "null"
    THEN JObject([k \in {"mcp"} |-> JObject(EmptyMap)])
    ELSE IF "mcp" \in DOMAIN config.v
         THEN config
         ELSE JObject(Insert(config.v, "mcp", JObject(EmptyMap)))

\* the two blocks under if let Some(mcp) = config["mcp"].as_object_mut():
\* the Maestro entries are removed, then the new servers are inserted
MergeServers(config, mcp_servers) ==
    LET mcp == config.v["mcp"]
    IN  IF mcp.t = "object"
        THEN LET to_remove == {k \in DOMAIN mcp.v : should_remove_server(k)}
                 kept == [k \in DOMAIN mcp.v \ to_remove |-> mcp.v[k]]
                 merged == [k \in DOMAIN kept \cup DOMAIN mcp_servers |->
                               IF k \in DOMAIN mcp_servers
                               THEN mcp_servers[k]
                               ELSE kept[k]]
             IN  JObject(Insert(config.v, "mcp", JObject(merged)))
        ELSE config

\* write_opencode_mcp_config, under the lock of the directory: read and
\* parse, merge, serialize and write. A text that does not parse, a document
\* that is neither an object nor null, and a failed write leave the file.
write_opencode_mcp_config(session_id, mcp_path, enabled_servers, custom_servers) ==
    LET mcp_servers == McpServers(mcp_path, session_id, status_url(RANGE_START),
                                  instance_id, enabled_servers, custom_servers)
        done(status) == [NoEffect EXCEPT !.by = "write_opencode_mcp_config",
                                         !.status = status,
                                         !.id = session_id,
                                         !.values = <<mcp_servers>>]
    IN  /\ IF opencode_json # <<>> /\ opencode_json[1].t = "garbage"
           THEN /\ effect' = done("Failed to parse existing opencode.json")
                /\ UNCHANGED opencode_json
           ELSE LET config == IF opencode_json = <<>>
                              THEN JObject(EmptyMap)
                              ELSE FromStr(opencode_json[1])
                IN  IF config.t \notin {"object", "null"}
                    THEN /\ effect' = done("panic")
                         /\ UNCHANGED opencode_json
                    ELSE \/ /\ opencode_json' =
                                  <<ToStringPretty(
                                        MergeServers(EnsureMcp(config), mcp_servers))>>
                            /\ effect' = done("ok")
                         \/ /\ effect' = done("Failed to write temp file")
                            /\ UNCHANGED opencode_json
        /\ UNCHANGED <<instance_id, session_projects, handler, net_vars, mcp_server,
                       worktrees, dirs, other_json, pm_vars>>

\* a removal that empties the mcp section
RemoveMaestroAll(config) ==
    IF config.t = "object" /\ "mcp" \in DOMAIN config.v
          /\ config.v["mcp"].t = "object"
    THEN JObject(Insert(config.v, "mcp", JObject(EmptyMap)))
    ELSE config

\* remove_opencode_mcp_config: if let Some(mcp) = config.get_mut("mcp")
\* .and_then(|s| s.as_object_mut()), the Maestro entries are removed
RemoveMaestro(config) ==
    IF config.t = "object" /\ "mcp" \in DOMAIN config.v
          /\ config.v["mcp"].t = "object"
    THEN LET mcp == config.v["mcp"].v
             to_remove == {k \in DOMAIN mcp : should_remove_server(k)}
         IN  JObject(Insert(config.v, "mcp",
                            JObject([k \in DOMAIN mcp \ to_remove |-> mcp[k]])))
    ELSE config

\* remove_opencode_mcp_config: Ok at once when there is no file; else, under
\* the lock of the directory, read and parse, remove, serialize and write
remove_opencode_mcp_config(session_id) ==
    LET done(status) == [NoEffect EXCEPT !.by = "remove_opencode_mcp_config",
                                         !.status = status,
                                         !.id = session_id]
    IN  /\ IF opencode_json = <<>>
           THEN /\ effect' = done("ok")
                /\ UNCHANGED opencode_json
           ELSE IF opencode_json[1].t = "garbage"
           THEN /\ effect' = done("Failed to parse opencode.json")
                /\ UNCHANGED opencode_json
           ELSE \/ /\ opencode_json' =
                         <<ToStringPretty(RemoveMaestro(FromStr(opencode_json[1])))>>
                   /\ effect' = done("ok")
                \/ /\ effect' = done("Failed to write temp file")
                   /\ UNCHANGED opencode_json
        /\ UNCHANGED <<instance_id, session_projects, handler, net_vars, mcp_server,
                       worktrees, dirs, other_json, pm_vars>>

\* entries a file may hold before Maestro writes it
OldStatusEntry == [type |-> "local", command |-> <<"/old/maestro-mcp-server">>]
UserEntry == [type |-> "local", command |-> <<"/usr/bin/user-server">>]

\* opencode.json as the session finds it: missing, not JSON, JSON that is no
\* object, and objects with and without an mcp section
InitialFiles ==
    {<<>>, <<Document("garbage", <<>>)>>, <<Document("null", <<>>)>>, <<Document("array", <<>>)>>,
     <<Document("object", <<>>)>>,
     <<Document("object",
                <<(<<"provider", JString("anthropic")>>),
                  (<<"model", JString("claude-sonnet-4-20250514")>>),
                  (<<"mcp", JObject(Insert(EmptyMap, USER_SERVER, UserEntry))>>)>>)>>,
     <<Document("object",
                <<(<<"provider", JString("openai")>>),
                  (<<"mcp", JObject(
                       Insert(Insert(Insert(Insert(Insert(Insert(EmptyMap,
                           MAESTRO_STATUS, OldStatusEntry),
                           MAESTRO_STATUS_1, OldStatusEntry),
                           MAESTRO_2, OldStatusEntry),
                           MAESTRO, OldStatusEntry),
                           MAESTROS, UserEntry),
                           USER_SERVER, UserEntry))>>),
                  (<<"provider", JString("anthropic")>>)>>)>>,
     <<Document("object",
                <<(<<"model", JString("gpt")>>), (<<"mcp", [t |-> "null", v |-> ""]>>)>>)>>}

\* the servers a session may enable
EnabledServers ==
    {<<>>,
     <<McpServerConfig(USER_SERVER, "Http", "", <<>>, EmptyMap,
                       "http://localhost:1/mcp")>>,
     <<McpServerConfig(DB, "Stdio", "npx", <<"-y", "db">>, [KEY |-> "value"], ""),
       McpServerConfig(MAESTRO_2, "Stdio", "two", <<>>, EmptyMap, "")>>}

\* McpCustomServer values
CustomServers ==
    {<<>>,
     <<[name |-> DB, command |-> "custom-db", args |-> <<>>, env |-> EmptyMap]>>}

\* ------------------------------------- opencode.json, calls side by side

\* at most MaxCalls + 1 calls are in flight
WORKING_DIR == "/proj"
OTHER_DIR == "/other"
WorkingDirs == {WORKING_DIR, OTHER_DIR}

\* working_dir.join("opencode.json"), what is on the disk there
config_path(working_dir) ==
    IF working_dir = WORKING_DIR THEN opencode_json ELSE other_json

\* a lock that nobody ever holds
dir_lock_free(working_dir) == {}

\* dir_lock(working_dir): the calls that hold the guard of the directory's
\* Mutex, from lock().await until they return
dir_lock(working_dir) ==
    {call \in InFlight : /\ call.args[1] = working_dir
                         /\ call.pc \in {"locked", "read"}}

\* write_opencode_mcp_config up to dir_lock: mcp_servers is built
write_begin(working_dir, session_id, mcp_path, enabled_servers, custom_servers) ==
    /\ BagCardinality(calls) < MaxCalls + 1
    /\ calls' = Started([NewCall("write_opencode_mcp_config", "lock") EXCEPT
                            !.session_id = session_id,
                            !.args = <<working_dir,
                                       McpServers(mcp_path, session_id,
                                                  status_url(RANGE_START),
                                                  instance_id, enabled_servers,
                                                  custom_servers)>>])
    /\ effect' = [NoEffect EXCEPT !.by = "write_begin"]
    /\ UNCHANGED <<status_vars, parent, sessions, nprocs, alive>>

\* remove_opencode_mcp_config up to dir_lock: Ok at once without a file
remove_begin(working_dir, session_id) ==
    /\ BagCardinality(calls) < MaxCalls + 1
    /\ IF config_path(working_dir) = <<>>
       THEN /\ effect' = [NoEffect EXCEPT !.by = "remove_opencode_mcp_config",
                                          !.status = "ok", !.id = session_id,
                                          !.cwd = working_dir]
            /\ UNCHANGED calls
       ELSE /\ calls' = Started([NewCall("remove_opencode_mcp_config", "lock")
                                    EXCEPT !.session_id = session_id,
                                           !.args = <<working_dir>>])
            /\ effect' = [NoEffect EXCEPT !.by = "remove_begin"]
    /\ UNCHANGED <<status_vars, parent, sessions, nprocs, alive>>

\* lock.lock().await returns when no other call holds the guard
lock_await(call) ==
    /\ call.pc = "lock"
    /\ dir_lock(call.args[1]) = {}
    /\ calls' = Moved(call, [call EXCEPT !.pc = "locked"])
    /\ effect' = [NoEffect EXCEPT !.by = "lock"]
    /\ UNCHANGED <<status_vars, parent, sessions, nprocs, alive>>

\* under the guard: the file is read and parsed; an error returns and
\* drops the guard
read_config(call) ==
    LET file == config_path(call.args[1])
        done(status) == [NoEffect EXCEPT !.by = call.op, !.status = status,
                                         !.cwd = call.args[1]]
        go_on(config) ==
            /\ calls' = Moved(call, [call EXCEPT !.pc = "read",
                                                 !.values = <<config>>])
            /\ effect' = [NoEffect EXCEPT !.by = "read"]
    IN  /\ call.pc = "locked"
        /\ IF call.op = "write_opencode_mcp_config"
           THEN IF file # <<>> /\ file[1].t = "garbage"
                THEN /\ effect' = done("Failed to parse existing opencode.json")
                     /\ calls' = Finished(call)
                ELSE LET config == IF file = <<>>
                                   THEN JObject(EmptyMap)
                                   ELSE FromStr(file[1])
                     IN  IF config.t \notin {"object", "null"}
                         THEN /\ effect' = done("panic")
                              /\ calls' = Finished(call)
                         ELSE go_on(EnsureMcp(config))
           ELSE IF file = <<>>
                THEN /\ effect' = done("Failed to read opencode.json")
                     /\ calls' = Finished(call)
                ELSE IF file[1].t = "garbage"
                THEN /\ effect' = done("Failed to parse opencode.json")
                     /\ calls' = Finished(call)
                ELSE go_on(FromStr(file[1]))
        /\ UNCHANGED <<status_vars, parent, sessions, nprocs, alive>>

\* under the guard: the entries are removed and added, the value is
\* serialized and atomic_write puts it in the place of the file, or fails;
\* the call returns and drops the guard
atomic_write(call) ==
    LET working_dir == call.args[1]
        config == IF call.op = "write_opencode_mcp_config"
                  THEN MergeServers(call.values[1], call.args[2])
                  ELSE RemoveMaestro(call.values[1])
        done(status) == [NoEffect EXCEPT !.by = call.op, !.status = status,
                                         !.cwd = working_dir]
    IN  /\ call.pc = "read"
        /\ calls' = Finished(call)
        /\ \/ /\ effect' = done("ok")
              /\ IF working_dir = WORKING_DIR
                 THEN /\ opencode_json' = <<ToStringPretty(config)>>
                      /\ UNCHANGED other_json
                 ELSE /\ other_json' = <<ToStringPretty(config)>>
                      /\ UNCHANGED opencode_json
           \/ /\ effect' = done("Failed to write temp file")
              /\ UNCHANGED <<opencode_json, other_json>>
        /\ UNCHANGED <<instance_id, session_projects, handler, net_vars, mcp_server,
                       worktrees, dirs, parent, sessions, nprocs, alive>>

\* ---------------------------------------------------------- the Supervisor

\* one running application
Init ==
    /\ StatusServerInit
    /\ ProcessManagerInit
    /\ instance_id = "inst-A"
    /\ parent = NoParents

Next ==
    \/ \E s \in DOMAIN sessions : do_register_session(s, "/tmp/proj")
    \/ \E p \in Pids : proc_exit(p)
    \/ \E cwd \in Cwds : spawn_shell(cwd)
    \/ \E s \in SessionIds : kill_session_begin(s)
    \/ \E call \in InFlight : pm_kill_finish(call)
    \/ \E call \in InFlight : kill_session_unregister(call)
    \/ kill_all_sessions_begin
    \/ \E call \in InFlight : kill_all_sessions_next(call)
    \/ \E p \in Pids : kill_process_begin(p)
    \/ \E call \in InFlight : kill_process_signal(call)
    \/ \E call \in InFlight : kill_process_grace_end(call)
    \/ get_all_process_trees

Spec == Init /\ [][Next]_vars

\* ------------------------------------------- one session's pseudo-terminal

\* spawn, use and kill of sessions, without the other commands
PtyNext ==
    \/ \E p \in Pids : proc_exit(p)
    \/ spawn_shell("dir")
    \/ \E s \in SessionIds : kill_session_begin(s)
    \/ \E call \in InFlight : pm_kill_finish(call)
    \/ \E call \in InFlight : kill_session_unregister(call)
    \/ \E s \in SessionIds, rows \in BoundaryDims, cols \in BoundaryDims :
           resize_pty(s, rows, cols)
    \/ \E s \in SessionIds, data \in Data : write_stdin(s, data)
    \/ \E s \in SessionIds : get_session_process_tree(s)

SpecPty == Init /\ [][PtyNext]_vars

\* resize_pty with every pair of dimensions, on sessions and on unknown ids
ResizeNext ==
    \/ spawn_shell("dir")
    \/ \E s \in SessionIds, rows \in Dims, cols \in Dims : resize_pty(s, rows, cols)

SpecResize == Init /\ [][ResizeNext]_vars

\* ------------------------------------------------ the Process Tree Inspector

\* process tables: a process is a child of the application (0) or of a
\* process started before it
ProcessTables == {f \in [Pids -> {0} \cup Pids] : \A p \in Pids : f[p] < p}

\* registries: some session ids, each with a root of its own
Registries ==
    UNION {{f \in [S -> Pids] : \A a, b \in S : f[a] = f[b] => a = b} :
              S \in SUBSET SessionIds}

\* any registry over any process table, every process alive
TreeInit ==
    /\ StatusServerInit
    /\ instance_id = "inst-A"
    /\ sessions \in Registries
    /\ nprocs = Cardinality(Pids)
    /\ alive = Pids
    /\ parent \in ProcessTables
    /\ calls = EmptyBag
    /\ effect = NoEffect

TreeNext ==
    \/ \E p \in Pids : proc_exit(p)
    \/ \E s \in SessionIds : get_session_process_tree(s)
    \/ get_all_process_trees

SpecTree == TreeInit /\ [][TreeNext]_vars

\* the tree commands while sessions are spawned and processes start and exit
SnapshotNext ==
    \/ spawn_shell("dir")
    \/ \E p \in Pids : proc_fork(p)
    \/ \E p \in Pids : proc_exit(p)
    \/ get_all_process_trees_begin
    \/ \E call \in InFlight : get_all_process_trees_build(call)

SpecSnapshot == Init /\ [][SnapshotNext]_vars

\* ------------------------------------------------ locks and suspension

\* a command that keeps the lock of the session map while it waits out a
\* grace period
LocksHeldInGrace(call) == IF call.pc = "grace" THEN {"sessions"} ELSE {}

\* the locks a command in flight holds while it is suspended: the lock of
\* the Process Manager's session map ("sessions"), the RwLock of the Status
\* Server's map ("session_projects"). Locks are taken and released within
\* a step.
LocksHeld(call) == {}

LockFree(lock) == \A call \in InFlight : lock \notin LocksHeld(call)

\* a step that takes lock
WithLock(lock, A) == LockFree(lock) /\ A

\* the status reports of the sessions' helpers
GraceRequests ==
    {r \in StatusRequest : /\ r.instance_id = "inst-A"
                           /\ r.state = "working"
                           /\ r.message = ""
                           /\ r.needs_input_prompt = <<>>}

\* the commands and the status endpoint while kills are in flight; the
\* process kill_process is called for is pid 1, which is no session's root
GraceNext ==
    \/ WithLock("sessions", spawn_shell("dir"))
    \/ \E s \in SessionIds : WithLock("sessions", kill_session_begin(s))
    \/ \E call \in InFlight : pm_kill_finish(call)
    \/ \E call \in InFlight :
           WithLock("session_projects", kill_session_unregister(call))
    \/ WithLock("sessions", kill_process_begin(1))
    \/ \E call \in InFlight : kill_process_signal(call)
    \/ \E call \in InFlight : kill_process_grace_end(call)
    \/ \E s \in SessionIds, data \in Data :
           WithLock("sessions", write_stdin(s, data))
    \/ \E s \in SessionIds : WithLock("sessions", resize_pty(s, 1, 1))
    \/ \E s \in SessionIds : WithLock("sessions", get_session_process_tree(s))
    \/ WithLock("session_projects", handle_status_lookup(GraceRequests))

SpecGrace == Init /\ [][GraceNext]_vars

\* ------------------------------------- the start of the Status Servers

\* two instances of the application, neither started, every contended port
\* free
PortsInit ==
    /\ DiskInit
    /\ instance_id = "inst-A"
    /\ session_projects = EmptyMap
    /\ handler = IdleHandler
    /\ listeners = [p \in ContendedPorts |-> "free"]
    /\ servers = [i \in InstanceIds |-> IdleServer]
    /\ ProcessManagerInit
    /\ parent = NoParents

PortsNext ==
    \/ \E i \in InstanceIds : start_begin(i)
    \/ \E i \in InstanceIds : find_and_bind_port(i)
    \/ \E i \in InstanceIds : start_serve(i)
    \/ \E port \in ContendedPorts : other_bind(port)
    \/ \E port \in ContendedPorts : other_release(port)

SpecPorts == PortsInit /\ [][PortsNext]_vars

\* ------------------------------------------------- the Status Server alone

StatusInit == StatusServerInit /\ ProcessManagerInit /\ parent = NoParents

StatusNext ==
    \/ \E s \in SessionIds, p \in Paths : do_register_session(s, p)
    \/ \E s \in SessionIds : do_unregister_session(s)
    \/ handle_status_lookup(StatusRequest)
    \/ handle_status_emit
    \/ reject_malformed

SpecStatus == StatusInit /\ [][StatusNext]_vars

\* helpers with any environment report to the Status Server
HelperNext ==
    \/ \E s \in SessionIds : do_register_session(s, "/tmp/proj")
    \/ \E s \in SessionIds : do_unregister_session(s)
    \/ \E reporter \in Reporters, arguments \in ToolArguments :
           maestro_status(reporter, arguments)
    \/ handle_status_emit

SpecHelper == StatusInit /\ [][HelperNext]_vars

\* callers of generate_project_hash while sessions come and go
HashNext ==
    \/ \E s \in SessionIds, p \in Paths : do_register_session(s, p)
    \/ \E s \in SessionIds : do_unregister_session(s)
    \/ \E project_path \in HashInputs : hash_first(project_path)
    \/ \E call \in InFlight : hash_second(call)

SpecHash == StatusInit /\ [][HashNext]_vars

\* sanitize_branch on every branch name
SanitizeNext == \E branch \in BranchNames : sanitize_twice(branch)

SpecSanitize == Init /\ [][SanitizeNext]_vars

\* branch names over a letter, the slash and the hyphen
PathBranchNames ==
    {b \in BranchNames : \A i \in 1 .. Len(b) : b[i] \in {"a", "/", "-"}}

\* worktree_path for two branch names of one repository
WorktreePathNext ==
    \/ \E repo_path \in RepoPaths, base_override \in BaseOverrides,
          branch \in PathBranchNames :
           worktree_path_first(repo_path, base_override, branch)
    \/ \E call \in InFlight, branch \in PathBranchNames :
           worktree_path_second(call, branch)

SpecWorktreePath == Init /\ [][WorktreePathNext]_vars

\* WorktreeManager::create and remove on one repository
CreateNext ==
    \/ \E branch \in RepoBranches : create(branch)
    \/ \E call \in InFlight : create_dir_all(call)
    \/ \E call \in InFlight : create_worktree_add(call)
    \/ \E branch \in RepoBranches :
           remove(worktree_path_with_base(REPO, branch, <<>>))
    \/ \E target \in {<<>>} \cup {<<b>> : b \in RepoBranches} :
           checkout_main(target)

SpecCreate == Init /\ [][CreateNext]_vars

\* sessions write opencode.json of one working directory
ConfigInit ==
    /\ instance_id = "inst-A"
    /\ session_projects = EmptyMap
    /\ handler = IdleHandler
    /\ listeners = [p \in ContendedPorts |->
                       IF p = RANGE_START THEN instance_id ELSE "free"]
    /\ servers = [i \in InstanceIds |->
                     IF i = instance_id THEN Serving(RANGE_START) ELSE IdleServer]
    /\ ProcessManagerInit
    /\ parent = NoParents
    /\ worktrees = {MainWorktree(<<(<<"m">>)>>)}
    /\ dirs = {}
    /\ opencode_json \in InitialFiles
    /\ other_json = <<>>
    /\ mcp_server = NewMcpServer([status_url |-> <<>>, session_id |-> <<>>,
                                  instance_id |-> <<>>], <<>>, "none")

ConfigNext ==
    \E session_id \in SessionIds, mcp_path \in {<<>>, <<"/bin/maestro-mcp-server">>},
       enabled_servers \in EnabledServers, custom_servers \in CustomServers :
        write_opencode_mcp_config(session_id, mcp_path, enabled_servers,
                                  custom_servers)

SpecConfig == ConfigInit /\ [][ConfigNext]_vars

\* sessions write opencode.json and remove their entries from it
RemoveNext ==
    \/ ConfigNext
    \/ \E session_id \in SessionIds : remove_opencode_mcp_config(session_id)

SpecRemove == ConfigInit /\ [][RemoveNext]_vars

\* sessions of two directories write and remove side by side
LockInit ==
    /\ ConfigInit
    /\ opencode_json \in {<<>>} \cup {file \in InitialFiles :
                                         /\ file # <<>>
                                         /\ file[1].t = "object"
                                         /\ Len(file[1].members) = 3}

LockNext ==
    \/ \E working_dir \in WorkingDirs,
          enabled_servers \in {list \in EnabledServers : Len(list) < 2} :
         \E session_id \in IF working_dir = WORKING_DIR
                           THEN {1, MaxSessionId}
                           ELSE {1} :
           write_begin(working_dir, session_id, <<"/bin/maestro-mcp-server">>,
                       enabled_servers, <<>>)
    \/ \E working_dir \in WorkingDirs, session_id \in {1} :
           remove_begin(working_dir, session_id)
    \/ \E call \in InFlight : lock_await(call)
    \/ \E call \in InFlight : read_config(call)
    \/ \E call \in InFlight : atomic_write(call)

SpecLock == LockInit /\ [][LockNext]_vars

\* a helper of session 1, started with or without a status URL, and a client
\* that writes up to MaxLines lines and closes the pipe
RunInit ==
    /\ instance_id = "inst-A"
    /\ session_projects = EmptyMap
    /\ handler = IdleHandler
    /\ listeners = [p \in ContendedPorts |->
                       IF p = RANGE_START THEN instance_id ELSE "free"]
    /\ servers = [i \in InstanceIds |->
                     IF i = instance_id THEN Serving(RANGE_START) ELSE IdleServer]
    /\ ProcessManagerInit
    /\ parent = NoParents
    /\ worktrees = {MainWorktree(<<(<<"m">>)>>)}
    /\ dirs = {}
    /\ opencode_json = <<>>
    /\ other_json = <<>>
    /\ \E url \in {<<>>, <<status_url(RANGE_START)>>},
          n \in 0 .. MaxLines :
           \E stdin \in [1 .. n -> InputLines] :
               mcp_server = NewMcpServer(
                                [status_url |-> url,
                                 session_id |-> <<1>>,
                                 instance_id |-> <<"inst-A">>],
                                stdin, "running")

RunNext ==
    \/ \E outcome \in SendOutcomes, written \in BOOLEAN :
           run_line(outcome, written)
    \/ run_end

SpecRun == RunInit /\ [][RunNext]_vars

\* ------------------------------------------- properties of the Status Server

\* a step in which handle_status takes a parsed report and runs to the end
\* of its read-locked block
LookupStep ==
    /\ handler.pc # "emit"
    /\ handler'.pc \in {"emit", "done"}
    /\ handler' # handler

\* a step in which handle_status builds and emits its event and answers
EmitStep ==
    /\ handler.pc = "emit"
    /\ handler' # handler

\* the handler has taken a report that carries the server's instance id and
\* a session id that had an entry when it was looked up
Accepted ==
    /\ handler.pc \in {"emit", "done"}
    /\ handler.req.instance_id = instance_id
    /\ handler.project_path # <<>>

\* C1: a report whose instance_id differs from the server's own is answered
\* without any UI event, whatever its session_id (registered or not) and
\* whatever its state: the handler is done at once and has emitted nothing.
C1_WrongInstanceNoEvent ==
    (handler.pc \in {"emit", "done"} /\ handler.req.instance_id # instance_id)
        => (handler.pc = "done" /\ handler.emitted = <<>>)

\* a report of another instance for a session that is registered was handled
C1_Witness ==
    /\ handler.pc = "done"
    /\ handler.req.instance_id # instance_id
    /\ handler.req.session_id \in DOMAIN session_projects
    /\ handler.req.state = "working"
    /\ handler.emitted = <<>>

\* C2: a report whose session_id has no entry in the session-to-project map
\* when the handler looks it up (it was never registered, or it was
\* unregistered) makes the handler finish without a UI event, even when the
\* instance_id matches.
C2_UnknownSessionNoEvent ==
    [][(LookupStep /\ handler'.req.session_id \notin DOMAIN session_projects)
          => (handler'.pc = "done" /\ handler'.emitted = <<>>)]_vars

\* a report with the right instance id for a session without an entry was
\* handled while another session was registered
C2_Witness ==
    /\ handler.pc = "done"
    /\ handler.req.instance_id = instance_id
    /\ handler.req.session_id \notin DOMAIN session_projects
    /\ session_projects # EmptyMap
    /\ handler.emitted = <<>>

\* C3: a report with the right instance_id for a registered session yields
\* exactly one UI event; it carries the session_id, message and
\* needs_input_prompt of the report unchanged and the project_path the
\* session was registered with. The lookup takes the registered path, the
\* emit step emits one event built from the report and that path, and an
\* accepted report that is answered has one event.
C3_AcceptedOneEvent ==
    /\ [][(LookupStep /\ handler'.req.instance_id = instance_id
                      /\ handler'.req.session_id \in DOMAIN session_projects)
             => /\ handler'.pc = "emit"
                /\ handler'.emitted = <<>>
                /\ handler'.project_path =
                       <<session_projects[handler'.req.session_id]>>]_vars
    /\ [][EmitStep
             => /\ handler'.pc = "done"
                /\ handler'.req = handler.req
                /\ Len(handler'.emitted) = 1
                /\ handler'.emitted[1].session_id = handler.req.session_id
                /\ handler'.emitted[1].message = handler.req.message
                /\ handler'.emitted[1].needs_input_prompt =
                       handler.req.needs_input_prompt
                /\ handler'.emitted[1].project_path = handler.project_path[1]]_vars
    /\ []((Accepted /\ handler.pc = "done") => Len(handler.emitted) = 1)

\* register 1 -> /tmp/proj, then a report working/compiling for 1: the one
\* event is {1, /tmp/proj, Working, compiling}
C3_Witness ==
    /\ handler.pc = "done"
    /\ handler.req.instance_id = instance_id
    /\ handler.emitted =
           <<[session_id |-> 1, project_path |-> "/tmp/proj",
              status |-> "Working", message |-> "compiling",
              needs_input_prompt |-> <<"continue?">>]>>

\* C9: the status endpoint answers 200 OK to every report that parsed:
\* instance mismatch, unknown session, accepted report, and accepted report
\* whose emit failed; only a body that does not parse gets another answer,
\* and that answer is not the handler's.
C9_AlwaysOk ==
    /\ (handler.pc = "done" => handler.code = OK)
    /\ (handler.code # "" /\ handler.code # OK => handler.pc = "rejected")

\* an accepted report whose emit failed was answered
C9_Witness ==
    /\ handler.pc = "done"
    /\ handler.emitted # <<>>
    /\ ~handler.emit_ok
    /\ handler.code = OK

\* the table of the wire vocabulary
C10_Table(state) ==
    IF state = "idle" THEN "Idle"
    ELSE IF state = "working" THEN "Working"
    ELSE IF state = "needs_input" THEN "NeedsInput"
    ELSE IF state = "finished" THEN "Done"
    ELSE IF state = "error" THEN "Error"
    ELSE "Unknown"

\* C10: the status of an emitted event is a function of the state string of
\* the report alone: the five wire states map to Idle, Working, NeedsInput,
\* Done, Error and every other string (other capitalisation, the empty
\* string) to Unknown; a report with an unrecognised state is not dropped.
C10_StatusOfState ==
    /\ \A i \in 1..Len(handler.emitted) :
           handler.emitted[i].status = C10_Table(handler.req.state)
    /\ (Accepted /\ handler.pc = "done" /\ handler.req.state \notin WireStates)
           => /\ handler.emitted # <<>>
              /\ handler.emitted[1].status = "Unknown"

\* a report with state "Working" (capital W) was accepted and gave Unknown
C10_Witness ==
    /\ handler.pc = "done"
    /\ handler.req.state = "Working"
    /\ Len(handler.emitted) = 1
    /\ handler.emitted[1].status = "Unknown"

\* ---------------------------------------- properties of the session lifecycle

\* the kill_session command has just returned success for a session that
\* existed when it was called
KillSessionReturnedOk ==
    /\ effect.by = "kill_session"
    /\ effect.status = "ok"
    /\ effect.pid # 0

\* process p has been started, is dead and is no session's root
DeadAndForgotten(p, live, sess) ==
    /\ p \notin live
    /\ p \notin SessionRootPids(sess)

\* C4: kill_session(S) does not return success before S's root process is
\* dead and S is out of the Process Manager: when it returns, the root is
\* not alive and a pid query for S does not answer it; and a process that
\* is dead and out of the registry stays so, so the query yields nothing
\* for S at any later point.
C4_KillReturnsAfterDeadAndRemoved ==
    /\ [](KillSessionReturnedOk
            => /\ DeadAndForgotten(effect.pid, alive, sessions)
               /\ get_session_pid(effect.id) # <<effect.pid>>)
    /\ [][\A p \in 1..nprocs :
             DeadAndForgotten(p, alive, sessions)
                 => DeadAndForgotten(p, alive', sessions')]_vars

\* kill_session returned success for a session whose root needed the kill
C4_Witness ==
    /\ KillSessionReturnedOk
    /\ effect.ids = {effect.id}
    /\ effect.pid \notin alive
    /\ effect.id \notin DOMAIN sessions

\* the step completes a kill of the session s with root p: the call that
\* waited out the grace period for it moves on and p is dead
KillCompletes(s, p) ==
    \E call \in InFlight :
        /\ call.pc = "grace"
        /\ call.op \in {"kill_session", "kill_all_sessions"}
        /\ call.session_id = s
        /\ call.pid = p
        /\ CopiesIn(call, calls') < CopiesIn(call, calls)
        /\ p \notin alive'

\* C5: get_session_pid(S) answers the root pid of S from the moment
\* spawn_shell returned S's id until a kill of S completes, the grace
\* period of the kill included, and nothing for S from then on: the entry
\* is there when spawn_shell returns, it leaves the registry only in the
\* step that completes a kill of S, and that step does take it out.
C5_PidUntilKillCompletes ==
    /\ []((effect.by = "spawn_shell" /\ effect.status = "ok")
            => get_session_pid(effect.id) = <<effect.pid>>)
    /\ [][\A s \in DOMAIN sessions :
             MapGet(sessions', s) # <<sessions[s]>> => KillCompletes(s, sessions[s])]_vars
    /\ [][\A s \in DOMAIN sessions :
             KillCompletes(s, sessions[s]) => MapGet(sessions', s) # <<sessions[s]>>]_vars

\* a kill of a session waits out its grace period, the root has already
\* exited, and the pid query still answers the root pid
C5_Witness ==
    \E call \in InFlight :
        /\ call.op = "kill_session"
        /\ call.pc = "grace"
        /\ call.pid \notin alive
        /\ get_session_pid(call.session_id) = <<call.pid>>

\* C6: a session's entry leaves a registry only after its root process is
\* confirmed dead or force-killed, also when the Process Manager's kill
\* returns an error: when kill_session returns having taken the entry of
\* its session out of the Status Server's map, the session's root is dead.
C6_UnregisteredOnlyAfterDead ==
    (effect.by = "kill_session" /\ effect.unregistered /\ effect.pid # 0)
        => effect.pid \notin alive

\* C7: when kill_session or kill_all_sessions returns, the Status Server
\* has forgotten every session the operation terminated: none of their ids
\* has an entry in the session-to-project map (unless the id already names
\* a new active session).
C7_StatusServerForgets ==
    (effect.by \in {"kill_session", "kill_all_sessions"} /\ effect.status = "ok")
        => \A s \in effect.ids :
               s \notin DOMAIN session_projects \/ s \in DOMAIN sessions

\* C8: kill_process never signals a process that is then the root of a
\* registered session, for every interleaving with spawn_shell.
C8_NoSignalToRoot ==
    (effect.by = "kill_process" /\ effect.sig # "") => ~effect.to_root

\* the step starts call / moves call on
Enters(call) == CopiesIn(call, calls') > CopiesIn(call, calls)
Leaves(call) == CopiesIn(call, calls') < CopiesIn(call, calls)

\* call is a kill_session that the step starts
KillSessionStarts(call) ==
    /\ call.op = "kill_session"
    /\ call.killed = {}
    /\ Enters(call)

\* C11: kill_session is idempotent. A kill_session for an id the Process
\* Manager does not know (never spawned, already killed) or whose root has
\* already exited is not failed by the Process Manager and returns
\* success; and a kill_session for an id that is not active changes neither
\* the Process Manager's registry nor the processes and takes at most the
\* id's entry out of the Status Server's map, an entry that is not there
\* after a first kill_session has returned.
C11_KillSessionIdempotent ==
    /\ [][\A call \in BagToSet(calls') :
             (KillSessionStarts(call)
                 /\ (call.session_id \notin DOMAIN sessions
                       \/ sessions[call.session_id] \notin alive))
                 => /\ call.result # "err"
                    /\ UNCHANGED <<sessions, alive, session_projects>>]_vars
    /\ []((effect.by = "kill_session" /\ effect.status # "")
            => /\ effect.id \notin DOMAIN session_projects
               /\ (effect.pid = 0 \/ effect.ids # {}) => effect.status = "ok")
    /\ [][\A call \in InFlight :
             (call.op = "kill_session" /\ call.pid = 0 /\ Leaves(call))
                 => /\ sessions' = sessions
                    /\ alive' = alive
                    /\ session_projects' = MapRemove(session_projects, call.session_id)
                    /\ effect'.status = "ok"]_vars

\* kill_session returned success for an id that names no session, after a
\* session had been spawned, and found nothing to unregister
C11_Witness ==
    /\ effect.by = "kill_session"
    /\ effect.status = "ok"
    /\ effect.pid = 0
    /\ ~effect.unregistered
    /\ effect.id \notin DOMAIN sessions
    /\ nprocs > 1

\* C12: in kill_session (kill_all_sessions alike) and in kill_process the
\* forceful kill is sent only by a call that has sent the graceful signal
\* and waited out its grace period, and only to a target that is alive when
\* the grace period ends; a target that exited meanwhile is not force-killed.
C12_ForceOnlyAfterGrace ==
    /\ [][effect'.sig = "KILL"
             => \E call \in InFlight :
                    /\ call.pc = "grace"
                    /\ Leaves(call)
                    /\ call.op = effect'.by
                    /\ call.pid = effect'.pid
                    /\ call.pid \in alive]_vars
    /\ [][\A call \in BagToSet(calls') :
             (call.pc = "grace" /\ Enters(call))
                 => /\ effect'.sig = "TERM"
                    /\ effect'.pid = call.pid
                    /\ effect'.by = call.op]_vars
    /\ [][\A call \in InFlight :
             (call.pc = "grace" /\ Leaves(call) /\ call.pid \notin alive)
                 => effect'.sig = ""]_vars

\* the target of a kill_process exited during the grace period: the call
\* returned success without a forceful kill
C12_Witness ==
    /\ effect.by = "kill_process"
    /\ effect.status = "ok"
    /\ effect.sig = ""

\* C13: kill_all_sessions kills every session that is active when it is
\* called and returns the number of sessions it killed: when it returns,
\* no root of a session that was active at the call is alive or in the
\* Process Manager, so without a spawn in between no session is left; and
\* get_all_process_trees answers trees of registered sessions only, hence
\* the empty list when there is none.
C13_KillAllKillsAll ==
    /\ [][\A call \in InFlight :
             (call.op = "kill_all_sessions" /\ call.pc = "next"
                 /\ call.todo = {} /\ Leaves(call))
                 => /\ effect'.by = "kill_all_sessions"
                    /\ effect'.status = "ok"
                    /\ effect'.count = Cardinality(call.killed)
                    /\ call.roots \cap SessionRootPids(sessions') = {}
                    /\ call.roots \cap alive' = {}]_vars
    /\ [](\A call \in InFlight :
             call.op = "kill_all_sessions"
                 => Cardinality(call.killed) <= Cardinality(call.roots))
    /\ [](effect.by = "get_all_process_trees"
            => /\ \A t \in effect.trees :
                      get_session_pid(t.session_id) = <<t.root_pid>>
               /\ sessions = EmptyMap => effect.trees = {})

\* kill_all_sessions returned 2 with two sessions active at the call, and
\* the Process Manager has no session left
C13_Witness ==
    /\ effect.by = "kill_all_sessions"
    /\ effect.count = MaxSessionId
    /\ sessions = EmptyMap

\* C14: spawn_shell with a working directory that does not exist, or that
\* is not a directory, is refused by the command before the Process Manager
\* is called: no session id is answered, no process is started, and the
\* Process Manager's registry and the Status Server's map are unchanged.
C14_InvalidCwdRejected ==
    /\ []((effect.by = "spawn_shell" /\ effect.cwd \in {"file", "missing"})
            => /\ effect.status = "rejected"
               /\ effect.id = 0
               /\ effect.pid = 0)
    /\ [][(effect'.by = "spawn_shell" /\ effect'.cwd \in {"file", "missing"})
             => UNCHANGED <<sessions, nprocs, alive, parent, calls,
                            session_projects, handler>>]_vars

\* spawn_shell was refused for a path that is a file while a session was
\* active
C14_Witness ==
    /\ effect.by = "spawn_shell"
    /\ effect.cwd = "file"
    /\ effect.status = "rejected"
    /\ sessions # EmptyMap

\* C15: when spawn_shell returns a session id, the Status Server already
\* knows the session's project: the id has an entry in the
\* session-to-project map.
C15_RegisteredAtSpawnReturn ==
    (effect.by = "spawn_shell" /\ effect.status = "ok")
        => effect.id \in DOMAIN session_projects

\* C16: resize_pty answers a resize error without calling the Process
\* Manager exactly when rows = 0, cols = 0, rows > 500 or cols > 500; every
\* other pair, the boundaries 1 and 500 included, passes the validation and
\* is forwarded to the Process Manager unchanged.
C16_ResizeValidation ==
    effect.by = "resize_pty"
        => /\ effect.status = "rejected"
                <=> (effect.rows = 0 \/ effect.cols = 0
                       \/ effect.rows > 500 \/ effect.cols > 500)
           /\ effect.status = "rejected" => effect.forwarded = <<>>
           /\ effect.status # "rejected"
                => effect.forwarded =
                       <<[session_id |-> effect.id, rows |-> effect.rows,
                          cols |-> effect.cols, data |-> ""]>>

\* a resize to 500 rows and 1 column of an active session was forwarded
C16_Witness ==
    /\ effect.by = "resize_pty"
    /\ effect.rows = 500
    /\ effect.cols = 1
    /\ effect.status = "ok"
    /\ effect.forwarded # <<>>

\* C17: write_stdin and resize_pty with valid dimensions on a session id
\* that is not in the Process Manager (never spawned, or killed) answer an
\* error and change no session, no process and no registry.
C17_UnknownSessionFails ==
    /\ []((effect.by \in {"write_stdin", "resize_pty"}
             /\ effect.status # "rejected"
             /\ effect.id \notin DOMAIN sessions)
            => effect.status = "err")
    /\ [][effect'.by \in {"write_stdin", "resize_pty"}
             => UNCHANGED <<sessions, nprocs, alive, parent, calls,
                            session_projects, handler>>]_vars

\* a write to a session id answered an error after the one session that
\* was spawned had been killed
C17_Witness ==
    /\ effect.by = "write_stdin"
    /\ effect.status = "err"
    /\ nprocs = 2
    /\ sessions = EmptyMap

\* C18: get_session_process_tree never answers an error; it answers no
\* tree when the session id is unknown to the Process Manager or when the
\* root pid is not in the process table, and a tree it answers is rooted at
\* the live root the id is registered with, so a session that kill_session
\* has removed gets none.
C18_TreeAbsentNotError ==
    effect.by = "get_session_process_tree"
        => /\ effect.status = "ok"
           /\ (effect.id \notin DOMAIN sessions \/ sessions[effect.id] \notin alive)
                => effect.trees = {}
           /\ \A t \in effect.trees :
                  /\ t.root_pid \in alive
                  /\ get_session_pid(effect.id) = <<t.root_pid>>

\* the tree of a session id was asked for after the one session that was
\* spawned had been killed: no tree, no error
C18_Witness ==
    /\ effect.by = "get_session_process_tree"
    /\ effect.status = "ok"
    /\ effect.trees = {}
    /\ nprocs = 2
    /\ sessions = EmptyMap

\* C19: the ids of the sessions active in the Process Manager are pairwise
\* distinct at every moment, however spawns interleave with each other and
\* with kills: a spawn answers an id that no active session holds and
\* leaves every other session in place, and every active session has a
\* root of its own.
C19_ActiveIdsDistinct ==
    /\ [][(effect'.by = "spawn_shell" /\ effect'.status = "ok")
             => /\ effect'.id \notin DOMAIN sessions
                /\ effect'.pid \notin SessionRootPids(sessions)
                /\ sessions' = MapInsert(sessions, effect'.id, effect'.pid)]_vars
    /\ [](Cardinality(SessionRootPids(sessions)) = Cardinality(DOMAIN sessions))

\* a spawn returned the one free id while a kill of the other session was
\* in flight
C19_Witness ==
    /\ effect.by = "spawn_shell"
    /\ effect.status = "ok"
    /\ Cardinality(DOMAIN sessions) = 2
    /\ calls # EmptyBag

\* the parent chain of p leads to root through live processes, in at most n
\* steps
RECURSIVE ChainLeadsTo(_, _, _)
ChainLeadsTo(p, root, n) ==
    \/ p = root
    \/ /\ n > 0
       /\ parent[p] \in alive
       /\ ChainLeadsTo(parent[p], root, n - 1)

\* C20: every process tree answered for a session has the session's root
\* pid as its root and holds exactly the root and the live processes whose
\* parent chain leads to the root; a root without live children gives a
\* tree of one node, and a root that is not in the process table gives no
\* tree at all.
C20_TreeOfRoot ==
    effect.by \in {"get_session_process_tree", "get_all_process_trees"}
        => /\ \A t \in effect.trees :
                  /\ get_session_pid(t.session_id) = <<t.root_pid>>
                  /\ t.root_pid \in alive
                  /\ t.nodes = {p \in alive :
                                   ChainLeadsTo(p, t.root_pid, Cardinality(Pids))}
                  /\ (\A q \in alive : parent[q] # t.root_pid)
                         => t.nodes = {t.root_pid}
           /\ \A s \in DOMAIN sessions :
                  (effect.by = "get_all_process_trees" \/ effect.id = s)
                      => (sessions[s] \in alive
                            <=> \E t \in effect.trees : t.session_id = s)
           /\ Cardinality(effect.trees) <= Cardinality(DOMAIN sessions)

\* the tree of a session whose root has a live child and a live grandchild
C20_Witness ==
    /\ effect.by = "get_session_process_tree"
    /\ parent[3] = 2
    /\ \E t \in effect.trees : t.root_pid = 1 /\ t.nodes = {1, 2, 3}

\* C21: get_all_process_trees builds all trees of one call from one snapshot
\* of the process table, while processes start and exit around the call:
\* the list it answers holds, for each session it lists, exactly the tree
\* get_process_tree gives for that session on that snapshot; every process
\* of a tree is in the snapshot, and with each process below the root its
\* parent in the snapshot is in the same tree.
C21_OneSnapshot ==
    [][\A call \in InFlight :
          (call.op = "get_all_process_trees" /\ Leaves(call))
              => /\ effect'.by = "get_all_process_trees"
                 /\ \A t \in effect'.trees :
                        /\ t.session_id \in DOMAIN call.session_pids
                        /\ <<t>> = get_process_tree(t.session_id,
                                        call.session_pids[t.session_id],
                                        Snapshot)
                        /\ t.nodes \subseteq Snapshot.pids
                        /\ \A p \in t.nodes \ {t.root_pid} :
                               Snapshot.ppid[p] \in t.nodes
                 /\ \A s \in DOMAIN call.session_pids :
                        get_process_tree(s, call.session_pids[s], Snapshot) # <<>>
                            => \E t \in effect'.trees : t.session_id = s
                 /\ Snapshot' = Snapshot]_vars

\* a call answers the tree of a session whose shell has started a child,
\* after another process has exited
C21_Witness ==
    /\ effect.by = "get_all_process_trees"
    /\ \E t \in effect.trees : t.root_pid = 2 /\ t.nodes = {2, 3}
    /\ parent[3] = 2
    /\ 1 \notin alive

\* a start that has bound its port
HasPort(i) == servers[i].pc \in {"bound", "serving"}

\* C22: two Status Server instances whose starts interleave in any way hold
\* two different ports, both in 9900..9999, and each instance holds the
\* listening socket of the port it reports.
C22_DifferentPorts ==
    /\ \A i \in InstanceIds :
           HasPort(i) => /\ servers[i].port \in 9900 .. 9999
                         /\ Holder(servers[i].port) = i
    /\ \A i, j \in InstanceIds :
           (i # j /\ HasPort(i) /\ HasPort(j))
               => servers[i].port # servers[j].port

\* both instances serve; inst-A found 9900 taken by inst-B and went on
C22_Witness ==
    /\ servers["inst-A"].pc = "serving"
    /\ servers["inst-B"].pc = "serving"
    /\ servers["inst-B"].port = 9900
    /\ servers["inst-A"].port = 9901
    /\ 9900 \in servers["inst-A"].tried

\* C23: StatusServer::start binds the ports 9900..9999 in ascending order
\* and keeps the first bind that succeeds: the port it reports was free at
\* its bind, every lower port of the range had failed to bind before, at a
\* moment when it was not free, and the instance holds the listener of the
\* reported port. When every bind has failed, start has returned no
\* server: no port is reported, none is held and no server task is spawned.
C23_FirstFreePort ==
    /\ [](\A i \in InstanceIds :
            /\ HasPort(i)
                  => /\ servers[i].port \in PortRange
                     /\ Holder(servers[i].port) = i
                     /\ servers[i].tried = RANGE_START .. (servers[i].port - 1)
            /\ servers[i].task <=> servers[i].pc = "serving"
            /\ servers[i].pc = "disabled"
                  => /\ servers[i].port = 0
                     /\ servers[i].tried = PortRange
                     /\ \A p \in PortRange : Holder(p) # i)
    /\ [][\A i \in InstanceIds :
            /\ \A q \in servers'[i].tried \ servers[i].tried :
                   /\ ~BindSucceeds(q)
                   /\ \A r \in servers[i].tried : r < q
            /\ servers'[i].port # servers[i].port
                  => /\ BindSucceeds(servers'[i].port)
                     /\ listeners'[servers'[i].port] = i]_vars

\* inst-A failed on 9900 and 9901 and serves on 9999, where every bind of
\* inst-B has failed; 9900 is free again
C23_Witness ==
    /\ servers["inst-A"].pc = "serving"
    /\ servers["inst-A"].port = 9999
    /\ servers["inst-B"].pc = "disabled"
    /\ listeners[9900] = "free"

\* a kill that is waiting out its grace period
InGrace(call) == call \in InFlight /\ call.pc = "grace"

HelperOf(S) ==
    [status_url |-> <<status_url(servers[instance_id].port)>>,
     session_id |-> <<S>>,
     instance_id |-> <<instance_id>>]

\* C25: a helper started with the session id S, this instance's identity
\* and this Status Server's URL, while S is registered, turns every
\* maestro_status call into exactly one event for S; a call that the tool
\* schema accepts gives an event with the state, the message and the prompt
\* of the call and a status that is not Unknown. The states of the schema
\* are exactly the states the server recognises.
C25_HelperCallOneEvent ==
    /\ [](SchemaStates =
             {st \in SchemaStates \cup WireStates \cup OtherStates :
                 MapState(st) # "Unknown"})
    /\ [][(handler.pc # "emit" /\ handler' # handler)
             => \A S \in DOMAIN session_projects, arguments \in ToolArguments :
                 handler'.req =
                         handle_tools_call(HelperOf(S), arguments)[1].payload
                 => /\ handler'.pc = "emit"
                    /\ handler'.emitted = <<>>
                    /\ handler'.req.session_id = S
                    /\ handler'.project_path = <<session_projects[S]>>
                    /\ SchemaValid(arguments)
                          => /\ handler'.req.state = arguments.state[1]
                             /\ handler'.req.message = arguments.message[1]
                             /\ handler'.req.needs_input_prompt =
                                    arguments.needsInputPrompt]_vars
    /\ [][(handler.pc = "emit" /\ handler' # handler)
             => /\ handler'.pc = "done"
                /\ Len(handler'.emitted) = 1
                /\ handler'.emitted[1].session_id = handler.req.session_id
                /\ handler'.emitted[1].message = handler.req.message
                /\ handler'.emitted[1].needs_input_prompt =
                       handler.req.needs_input_prompt
                /\ handler.req.state \in SchemaStates
                       => /\ handler'.emitted[1].status # "Unknown"
                          /\ handler'.emitted[1].status =
                                 MapState(handler.req.state)]_vars

\* the helper of session 2 has reported needs_input with a prompt, and the
\* one event for session 2 is out
C25_Witness ==
    /\ handler.pc = "done"
    /\ handler.req.instance_id = instance_id
    /\ handler.emitted =
           <<[session_id |-> 2, project_path |-> "/tmp/proj",
              status |-> "NeedsInput", message |-> "compiling",
              needs_input_prompt |-> <<"continue?">>]>>

C27_BranchesGetOwnPaths ==
    effect.by = "worktree_path"
        => (effect.input[1] = effect.input[2]
              <=> effect.values[1] = effect.values[2])

\* C28: sanitize_branch gives "unnamed-branch" for the empty name, "." and
\* ".."; for every other name it gives a name of the same length in which
\* each of the nine characters / \ : * ? " < > | is replaced by a hyphen
\* and every other character is kept; and sanitizing the result again
\* changes nothing.
C28_SanitizeBranch ==
    effect.by = "sanitize_branch"
        => LET branch == effect.input
               once == effect.values[1]
               twice == effect.values[2]
           IN  /\ branch \in {<<>>, <<".">>, <<".", ".">>}
                     => once = UNNAMED_BRANCH
               /\ branch \notin {<<>>, <<".">>, <<".", ".">>}
                     => /\ Len(once) = Len(branch)
                        /\ \A i \in 1 .. Len(branch) :
                               /\ branch[i] \in {"/", "\\", ":", "*", "?",
                                                  "\"", "<", ">", "|"}
                                     => once[i] = "-"
                               /\ branch[i] \notin {"/", "\\", ":", "*", "?",
                                                     "\"", "<", ">", "|"}
                                     => once[i] = branch[i]
               /\ \A i \in 1 .. Len(once) :
                      once[i] \notin {"/", "\\", ":", "*", "?", "\"", "<", ">", "|"}
               /\ twice = once

\* the name "./" was sanitized to ".-"
C28_Witness ==
    /\ effect.by = "sanitize_branch"
    /\ effect.input = <<".", "/">>
    /\ effect.values = <<(<<".", "-">>), (<<".", "-">>)>>

\* a worktree other than the main one has the branch checked out
InOtherWorktree(branch) ==
    \E wt \in worktrees : ~wt.is_main_worktree /\ wt.branch = <<branch>>

ManagedName(name) == name = MAESTRO \/ StartsWith(name, MAESTRO \o <<"-">>)

\* the top-level object a reader of the file gets
ConfigOf(file) == IF file = <<>> THEN JObject(EmptyMap) ELSE FromStr(file[1])

\* the entries of its mcp section
McpOf(object) ==
    IF "mcp" \in DOMAIN object /\ object["mcp"].t = "object"
    THEN object["mcp"].v
    ELSE EmptyMap

\* C30: a successful write_opencode_mcp_config on a file that holds an object
\* (or on no file) keeps every top-level key other than mcp with its value
\* and adds none; keeps every mcp entry that is not Maestro-managed and not
\* named like a server being written; removes every Maestro-managed entry
\* that was there; and, the mcp section being an object or absent, leaves
\* the servers being written directly under mcp.
C30_WriteKeepsOtherConfig ==
    [][(/\ effect'.by = "write_opencode_mcp_config"
        /\ effect'.status = "ok"
        /\ ConfigOf(opencode_json).t = "object")
          => LET old == ConfigOf(opencode_json).v
                 new == ConfigOf(opencode_json').v
                 written == effect'.values[1]
                 oldmcp == McpOf(old)
                 newmcp == McpOf(new)
             IN  /\ DOMAIN new \ {"mcp"} = DOMAIN old \ {"mcp"}
                 /\ \A k \in DOMAIN old \ {"mcp"} : new[k] = old[k]
                 /\ \A n \in DOMAIN oldmcp :
                        (~ManagedName(n) /\ n \notin DOMAIN written)
                            => n \in DOMAIN newmcp /\ newmcp[n] = oldmcp[n]
                 /\ \A n \in DOMAIN oldmcp :
                        (ManagedName(n) /\ n \notin DOMAIN written)
                            => n \notin DOMAIN newmcp
                 /\ ("mcp" \notin DOMAIN old \/ old["mcp"].t = "object")
                        => /\ "mcp" \in DOMAIN new
                           /\ new["mcp"].t = "object"
                           /\ \A n \in DOMAIN written :
                                  n \in DOMAIN newmcp /\ newmcp[n] = written[n]]_vars

\* session 1 wrote a file that had four Maestro entries, "maestros" and
\* "user-server": the two user entries and the provider are as they were,
\* "maestro-status" is the new entry, the other three are gone
C30_Witness ==
    /\ effect.by = "write_opencode_mcp_config"
    /\ effect.status = "ok"
    /\ effect.id = 1
    /\ opencode_json # <<>>
    /\ LET config == ConfigOf(opencode_json).v
           mcp == McpOf(config)
       IN  /\ DOMAIN config = {"provider", "mcp"}
           /\ config["provider"] = JString("anthropic")
           /\ DOMAIN mcp = {MAESTRO_STATUS, MAESTROS, USER_SERVER}
           /\ mcp[MAESTROS] = UserEntry
           /\ mcp[USER_SERVER] = UserEntry
           /\ mcp[MAESTRO_STATUS] # OldStatusEntry
           /\ mcp[MAESTRO_STATUS] = effect.values[1][MAESTRO_STATUS]

\* C31: a successful remove_opencode_mcp_config leaves no Maestro-managed
\* entry in the mcp section, keeps every other mcp entry and every top-level
\* key with its value and adds none; without a file it returns success and
\* there is still no file; and a successful call that directly follows a
\* successful call leaves the file as it was.
C31_RemoveOnlyMaestroEntries ==
    [][(/\ effect'.by = "remove_opencode_mcp_config"
        /\ effect'.status = "ok")
          => /\ opencode_json = <<>> => opencode_json' = <<>>
             /\ (effect.by = "remove_opencode_mcp_config" /\ effect.status = "ok")
                    => opencode_json' = opencode_json
             /\ (opencode_json # <<>> /\ ConfigOf(opencode_json).t = "object")
                    => LET old == ConfigOf(opencode_json).v
                           new == ConfigOf(opencode_json').v
                           oldmcp == McpOf(old)
                           newmcp == McpOf(new)
                       IN  /\ DOMAIN new = DOMAIN old
                           /\ \A k \in DOMAIN old \ {"mcp"} : new[k] = old[k]
                           /\ "mcp" \in DOMAIN old
                                  => new["mcp"].t = old["mcp"].t
                           /\ DOMAIN newmcp =
                                  {n \in DOMAIN oldmcp : ~ManagedName(n)}
                           /\ \A n \in DOMAIN newmcp : newmcp[n] = oldmcp[n]]_vars

\* a session removed its entries from the file that had four Maestro
\* entries, "maestros" and "user-server": only the two user entries are left
C31_Witness ==
    /\ effect.by = "remove_opencode_mcp_config"
    /\ effect.status = "ok"
    /\ opencode_json # <<>>
    /\ ConfigOf(opencode_json).t = "object"
    /\ LET config == ConfigOf(opencode_json).v
           mcp == McpOf(config)
       IN  /\ DOMAIN config = {"provider", "mcp"}
           /\ config["provider"] = JString("anthropic")
           /\ DOMAIN mcp = {MAESTROS, USER_SERVER}
           /\ mcp[MAESTROS] = UserEntry
           /\ mcp[USER_SERVER] = UserEntry

\* a line that is a JSON-RPC request: an object with jsonrpc and method
IsRequest(line) ==
    line.text = "json" /\ line.jsonrpc # <<>> /\ line.method # <<>>

\* a request with an id (an id of null is no id)
WithId(line) == IsRequest(line) /\ line.id \notin {<<>>, <<"null">>}

\* the helper reads the line at the head of its input in this step
Reads(line) ==
    /\ mcp_server.pc = "running"
    /\ mcp_server.stdin # <<>>
    /\ line = Head(mcp_server.stdin)
    /\ mcp_server'.read = Append(mcp_server.read, line)

\* the response written in this step, if one was
Written ==
    IF Len(mcp_server'.stdout) > Len(mcp_server.stdout)
    THEN <<mcp_server'.stdout[Len(mcp_server'.stdout)]>>
    ELSE <<>>

\* the POSTs sent in this step
Posted ==
    SubSeq(mcp_server'.posts, Len(mcp_server.posts) + 1, Len(mcp_server'.posts))

\* C32: the response lines are, in the order read, one for each request
\* read that has an id and a method other than notifications/initialized,
\* with the id of the request (the last one is missing if run stopped on a
\* failed write); a line without an id has none; and every response has
\* exactly one of result and error.
C32_OneResponsePerRequest ==
    LET owed == SelectSeq(mcp_server.read,
                          LAMBDA l : WithId(l) /\ l.method[1]
                                                    # "notifications/initialized")
        asked == [i \in 1 .. Len(owed) |-> owed[i].id[1]]
        answered == [i \in 1 .. Len(mcp_server.stdout) |-> mcp_server.stdout[i].id]
    IN  /\ mcp_server.pc # "Err" => answered = asked
        /\ mcp_server.pc = "Err" => answered = SubSeq(asked, 1, Len(asked) - 1)
        /\ \A i \in 1 .. Len(mcp_server.stdout) :
               (mcp_server.stdout[i].result = <<>>)
                   # (mcp_server.stdout[i].error = <<>>)

\* the requests 2 and 1 were read in this order, the first with an unknown
\* method, and the responses are an error for 2 and then a result for 1
C32_Witness ==
    /\ Len(mcp_server.read) = 2
    /\ mcp_server.read[1].id = <<"2">>
    /\ mcp_server.read[1].method = <<"resources/list">>
    /\ mcp_server.read[2].id = <<"1">>
    /\ Len(mcp_server.stdout) = 2
    /\ mcp_server.stdout[1].id = "2"
    /\ mcp_server.stdout[1].error # <<>>
    /\ mcp_server.stdout[2].id = "1"
    /\ mcp_server.stdout[2].result # <<>>

\* C33: a helper with a status URL that has read the notification
\* notifications/initialized (no id) has sent a report of state idle with
\* message Ready.
C33_InitializedReportsIdle ==
    \A i \in 1 .. Len(mcp_server.read) :
        (/\ IsRequest(mcp_server.read[i])
         /\ mcp_server.read[i].id = <<>>
         /\ mcp_server.read[i].method = <<"notifications/initialized">>
         /\ mcp_server.status_reporter.status_url # <<>>)
            => \E j \in 1 .. Len(mcp_server.posts) :
                   /\ mcp_server.posts[j].post.payload.state = "idle"
                   /\ mcp_server.posts[j].post.payload.message = "Ready"

\* C34: unless the write of the response fails, a request with an id gets:
\* for a method the helper does not know, the error -32601 and no report;
\* for a tools/call of maestro_status, the error -32000 exactly if the POST
\* of the report failed; for a tools/call of another tool, a result
\* flagged isError and no report; and in each case run goes on.
C34_ErrorAnswers ==
    [][\A line \in InputLines :
           (Reads(line) /\ WithId(line) /\ mcp_server'.pc # "Err")
               => /\ line.method[1] \notin {"initialize",
                                             "notifications/initialized",
                                             "tools/list", "tools/call", "ping"}
                       => /\ Written # <<>>
                          /\ Written[1].error = <<-32601>>
                          /\ Posted = <<>>
                          /\ mcp_server'.pc = "running"
                  /\ (line.method[1] = "tools/call"
                         /\ line.params.name = <<"maestro_status">>)
                       => /\ Written # <<>>
                          /\ (Written[1].error = <<-32000>>)
                                 <=> (Posted # <<>> /\ Posted[1].outcome = "failed")
                          /\ Written[1].error \in {<<>>, <<-32000>>}
                          /\ mcp_server'.pc = "running"
                  /\ (line.method[1] = "tools/call"
                         /\ line.params.name # <<"maestro_status">>)
                       => /\ Written # <<>>
                          /\ Written[1].result = <<"isError">>
                          /\ Written[1].error = <<>>
                          /\ Posted = <<>>
                          /\ mcp_server'.pc = "running"]_vars

\* a report failed and the request 1 got -32000, then the request 2 for
\* another tool got its result
C34_Witness ==
    /\ Len(mcp_server.stdout) = 2
    /\ mcp_server.stdout[1].id = "1"
    /\ mcp_server.stdout[1].error = <<-32000>>
    /\ mcp_server.stdout[2].id = "2"
    /\ mcp_server.stdout[2].result = <<"isError">>
    /\ Len(mcp_server.posts) = 1
    /\ mcp_server.posts[1].outcome = "failed"

\* C35: an empty line and a line that is not a JSON-RPC request are read
\* without a response and without a report, and run goes on with the next
\* line; run returns Ok only when the input is at its end.
C35_BadLinesSkipped ==
    [][/\ \A line \in InputLines :
              (Reads(line) /\ ~IsRequest(line))
                  => /\ Written = <<>>
                     /\ Posted = <<>>
                     /\ mcp_server'.pc = "running"
                     /\ mcp_server'.stdin = Tail(mcp_server.stdin)
       /\ (mcp_server'.pc = "Ok" /\ mcp_server.pc # "Ok")
              => mcp_server.stdin = <<>> /\ mcp_server'.stdin = <<>>]_vars

\* run returned Ok after a line that is not JSON and a tools/list request,
\* which got its response
C35_Witness ==
    /\ mcp_server.pc = "Ok"
    /\ Len(mcp_server.read) = 2
    /\ mcp_server.read[1].text = "not json"
    /\ mcp_server.read[2].method = <<"tools/list">>
    /\ Len(mcp_server.stdout) = 1
    /\ mcp_server.stdout[1].result = <<"tools">>

\* C36: a maestro_status call of a helper without a status URL sends no
\* POST and succeeds; with a status URL it sends exactly one POST, and it
\* fails exactly if the POST got no answer, so it succeeds alike when the
\* Status Server took the report and when it dropped it.
C36_OnePostNoFeedback ==
    [][\A line \in InputLines :
           (/\ Reads(line)
            /\ WithId(line)
            /\ line.method[1] = "tools/call"
            /\ line.params.name = <<"maestro_status">>
            /\ mcp_server'.pc # "Err")
               => /\ Written # <<>>
                  /\ mcp_server.status_reporter.status_url = <<>>
                       => Posted = <<>> /\ Written[1].result # <<>>
                  /\ mcp_server.status_reporter.status_url # <<>>
                       => /\ Len(Posted) = 1
                          /\ Posted[1].post.url
                                 = mcp_server.status_reporter.status_url[1]
                          /\ (Written[1].error # <<>>)
                                 <=> (Posted[1].outcome = "failed")]_vars

\* the Status Server dropped the one report of the helper and the call
\* was answered with its result
C36_Witness ==
    /\ Len(mcp_server.posts) = 1
    /\ mcp_server.posts[1].outcome = "200 dropped"
    /\ Len(mcp_server.read) = 1
    /\ Len(mcp_server.stdout) = 1
    /\ mcp_server.stdout[1].result = <<"Status reported">>

\* the number of calls in flight that are between lock().await and their
\* return for a directory
UnderGuard(working_dir) ==
    LET holders == {call \in InFlight : /\ call.args[1] = working_dir
                                        /\ call.pc \in {"locked", "read"}}
        RECURSIVE Count(_)
        Count(set) == IF set = {}
                      THEN 0
                      ELSE LET call == CHOOSE call \in set : TRUE
                           IN  CopiesIn(call, calls) + Count(set \ {call})
    IN  Count(holders)

\* what a call alone makes of a file
Sequential(call, file) ==
    IF call.op = "write_opencode_mcp_config"
    THEN MergeServers(EnsureMcp(ConfigOf(file)), call.args[2])
    ELSE RemoveMaestro(ConfigOf(file))

\* C37: of the calls on one directory at most one is between taking the
\* lock and its return; the file a call writes is what the call alone makes
\* of the file that is on the disk at that moment, so the file is always
\* the result of the calls one after the other in the order of their
\* writes, and an entry of another name than Maestro's that the writing
\* call does not set keeps its value; a call that fails and a call on the
\* other directory leave the file; and a call that waits for the lock of a
\* directory of which no call holds the lock can take it, whatever calls
\* hold the lock of the other directory.
C37_OneAtATimePerDirectory ==
    /\ [](\A working_dir \in WorkingDirs : UnderGuard(working_dir) <= 1)
    /\ [](\A call \in InFlight :
              (call.pc = "lock" /\ UnderGuard(call.args[1]) = 0)
                  => ENABLED lock_await(call))
    /\ [][\A working_dir \in WorkingDirs :
              config_path(working_dir)' # config_path(working_dir)
                  => \E call \in InFlight :
                         /\ call.pc = "read"
                         /\ call.args[1] = working_dir
                         /\ calls' = Finished(call)
                         /\ effect'.status = "ok"
                         /\ config_path(working_dir)'
                                = <<ToStringPretty(
                                        Sequential(call, config_path(working_dir)))>>
                         /\ \A other \in WorkingDirs \ {working_dir} :
                                config_path(other)' = config_path(other)
                         /\ LET old == ConfigOf(config_path(working_dir))
                                new == ConfigOf(config_path(working_dir)')
                            IN  (old.t = "object" /\ "mcp" \in DOMAIN old.v
                                    /\ old.v["mcp"].t = "object")
                                  => /\ new.t = "object"
                                     /\ DOMAIN old.v \subseteq DOMAIN new.v
                                     /\ \A k \in DOMAIN old.v \ {"mcp"} :
                                            new.v[k] = old.v[k]
                                     /\ new.v["mcp"].t = "object"
                                     /\ \A k \in DOMAIN old.v["mcp"].v :
                                            (/\ ~ManagedName(k)
                                             /\ (call.op = "write_opencode_mcp_config"
                                                    => k \notin DOMAIN call.args[2]))
                                              => /\ k \in DOMAIN new.v["mcp"].v
                                                 /\ new.v["mcp"].v[k]
                                                        = old.v["mcp"].v[k]]_vars

\* a write of session 1 waits for the lock of the working directory while a
\* write of the other session, which has read the file, holds it; the other
\* directory has been written meanwhile
C37_Witness ==
    /\ other_json # <<>>
    /\ \E holder \in InFlight, waiting \in InFlight :
           /\ holder.pc = "read"
           /\ holder.args[1] = WORKING_DIR
           /\ holder.op = "write_opencode_mcp_config"
           /\ holder.session_id = MaxSessionId
           /\ waiting.pc = "lock"
           /\ waiting.args[1] = WORKING_DIR
           /\ waiting.op = "write_opencode_mcp_config"
           /\ waiting.session_id = 1

\* C38 as stated: no event is emitted for a session that has no entry in
\* the map at that time, also not by a handler that had looked the session
\* up while it had one.
C38_NoEventAfterUnregister ==
    [][EmitStep => handler.req.session_id \in DOMAIN session_projects]_vars

\* C38, amended: a handler that looks a session up after it was
\* unregistered (and not registered again) finishes without an event; a
\* handler that has read the path of a session goes on when the session is
\* unregistered and emits its one event for it, with the path it read.
C38_NoEventFromLaterLookup ==
    /\ [](handler.pc = "emit" => handler.project_path # <<>>)
    /\ [][/\ (LookupStep /\ handler'.req.session_id \notin DOMAIN session_projects)
               => (handler'.pc = "done" /\ handler'.emitted = <<>>)
          /\ (LookupStep /\ handler'.pc = "emit")
               => handler'.req.session_id \in DOMAIN session_projects
          /\ (DOMAIN session_projects' # DOMAIN session_projects)
               => handler' = handler
          /\ EmitStep
               => /\ handler'.pc = "done"
                  /\ Len(handler'.emitted) = 1
                  /\ handler'.emitted[1].session_id = handler.req.session_id
                  /\ handler'.emitted[1].project_path = handler.project_path[1]]_vars

\* a handler has read the path of a session and has not emitted yet, and
\* the session has no entry any more
C38_Witness ==
    /\ handler.pc = "emit"
    /\ handler.project_path # <<>>
    /\ handler.req.session_id \notin DOMAIN session_projects

\* C39: the map holds one path per session id; a step that changes the map
\* changes the entry of one session, sets it to one path or removes it, and
\* leaves the entries of the other sessions; the handler reads the path the
\* session has at the time of the lookup, keeps it while the map changes,
\* and emits its event with it.
C39_OnePathPerSession ==
    /\ [](\A s \in DOMAIN session_projects :
              s \in SessionIds /\ session_projects[s] \in Paths)
    /\ [][/\ (session_projects' # session_projects)
               => /\ \E s \in SessionIds :
                         \A t \in SessionIds \ {s} :
                             MapGet(session_projects', t) = MapGet(session_projects, t)
                  /\ handler' = handler
          /\ (LookupStep /\ handler'.pc = "emit")
               => handler'.project_path
                      = <<session_projects[handler'.req.session_id]>>
          /\ EmitStep
               => handler'.emitted
                      = <<SessionStatusPayload(handler.req, handler.project_path[1])>>]_vars

\* an event for a session carries the path the session had when it was
\* looked up, while the session is registered with another path by now and
\* another session is registered too
C39_Witness ==
    /\ handler.pc = "done"
    /\ Len(handler.emitted) = 1
    /\ Cardinality(DOMAIN session_projects) = 2
    /\ handler.req.session_id \in DOMAIN session_projects
    /\ handler.emitted[1].project_path
           # session_projects[handler.req.session_id]

====
